---------------------------- MODULE Spec2Model ----------------------------
(***************************************************************************)
(* A state-machine model of the parallel data-file engine of p4est         *)
(* (src/src/p4est_io.c in its 3D build, constants from src/src/p8est_io.h).*)
(*                                                                         *)
(* Bytes are natural numbers (ASCII codes), strings and files are          *)
(* sequences of bytes.  A C offset o is the TLA+ index o + 1.  Ranks are   *)
(* 0 .. P-1; a partition gfq is a sequence of length P+1 whose element     *)
(* r + 1 is the C value gfq[r].                                            *)
(***************************************************************************)
EXTENDS Integers, Sequences, FiniteSets, TLC

(***************************************************************************)
(* Program constants                                                       *)
(***************************************************************************)
P4EST_NUM_METADATA_BYTES == 64
P4EST_NUM_ARRAY_METADATA_BYTES == 14
P4EST_BYTE_DIV == 16
P4EST_MAX_NUM_PAD_BYTES == P4EST_BYTE_DIV + 1
P4EST_NUM_USER_STRING_BYTES == 48
P4EST_NUM_FIELD_HEADER_BYTES ==
  2 + P4EST_NUM_ARRAY_METADATA_BYTES + P4EST_NUM_USER_STRING_BYTES
P4EST_FILE_COUNT_ERROR == -1
P4EST_ERR_IO == 5
sc_MPI_SUCCESS == 0
P4EST_NUM_MAGIC_BYTES == 8
P4EST_NUM_VERSION_STR_BYTES == 24

\* "p8data0"
P4EST_MAGIC_NUMBER == <<112, 56, 100, 97, 116, 97, 48>>

(***************************************************************************)
(* Bounds of the model                                                     *)
(***************************************************************************)
MaxQuads == 2
MaxProcs == 2
MaxSections == 2

(***************************************************************************)
(* Characters and C string helpers                                         *)
(***************************************************************************)
NL == 10
SP == 32
NUL == 0
CharH == 72
CharF == 70

Min(a, b) == IF a < b THEN a ELSE b
Max(a, b) == IF a > b THEN a ELSE b

Fill(c, n) == [i \in 1..n |-> c]

Take(s, n) == SubSeq(s, 1, Min(n, Len(s)))

\* The decimal digits of n >= 0, most significant first.
RECURSIVE DecDigits(_)
DecDigits(n) ==
  IF n < 10 THEN <<48 + n>> ELSE DecDigits(n \div 10) \o <<48 + (n % 10)>>

\* printf "%.Wllu" of the number with the decimal digits d: at least w
\* digits, zero-filled on the left.
ZeroPadDigits(d, w) == IF Len(d) >= w THEN d ELSE Fill(48, w - Len(d)) \o d

\* printf "%.Wllu": at least w digits, zero-filled on the left.
FmtZeroPad(n, w) == ZeroPadDigits(DecDigits(n), w)

\* printf "%-Ws": at least w characters, space-filled on the right.
FmtLeft(s, w) == IF Len(s) >= w THEN s ELSE s \o Fill(SP, w - Len(s))

\* printf "%.Ws": at most w characters.
FmtPrec(s, w) == Take(s, w)

\* The C string that starts at index i of buffer b: up to the first NUL
\* (or the end of the modelled memory).
RECURSIVE CStrLenFrom(_, _)
CStrLenFrom(b, i) ==
  IF i > Len(b) \/ b[i] = NUL THEN 0 ELSE 1 + CStrLenFrom(b, i + 1)

CStrAt(b, i) == SubSeq(b, i, i + CStrLenFrom(b, i) - 1)

\* A copy that stops one character early.
StrNCpyOneLess(src, n) ==
  LET t == Take(src, n - 2) IN t \o Fill(NUL, n - Len(t))

\* strncpy (dst, src, n): the first n characters of the C string src,
\* NUL-filled up to n.
StrNCpy(src, n) ==
  LET t == Take(src, n) IN t \o Fill(NUL, n - Len(t))

IsDigit(c) == c >= 48 /\ c <= 57
IsSpace(c) == c = SP \/ (c >= 9 /\ c <= 13)

RECURSIVE DigitsValue(_, _, _)
DigitsValue(s, i, acc) ==
  IF i > Len(s) \/ ~IsDigit(s[i]) THEN acc
  ELSE DigitsValue(s, i + 1, 10 * acc + (s[i] - 48))

RECURSIVE SkipSpace(_, _)
SkipSpace(s, i) ==
  IF i <= Len(s) /\ IsSpace(s[i]) THEN SkipSpace(s, i + 1) ELSE i

\* sc_atol = atol on a C string: leading white space, an optional sign,
\* then the longest run of digits.
sc_atol(s) ==
  LET i == SkipSpace(s, 1)
  IN  IF i <= Len(s) /\ s[i] = 45 THEN 0 - DigitsValue(s, i + 1, 0)
      ELSE IF i <= Len(s) /\ s[i] = 43 THEN DigitsValue(s, i + 1, 0)
      ELSE DigitsValue(s, i, 0)

\* The digits d without the leading zeros; "0" for a run of zeros.
RECURSIVE StripZeros(_)
StripZeros(d) ==
  IF Len(d) > 1 /\ d[1] = 48 THEN StripZeros(Tail(d)) ELSE d

\* The longest run of digits of s from index i on.
RECURSIVE DigitRun(_, _)
DigitRun(s, i) ==
  IF i > Len(s) \/ ~IsDigit(s[i]) THEN <<>> ELSE <<s[i]>> \o DigitRun(s, i + 1)

\* sc_atol with the value as its decimal digits, for sizes of up to 13
\* digits (non-negative input).  A long of 64 bits holds every number of
\* up to 18 digits; a longer one is clamped, written as the empty sequence.
AtolDigits(s) ==
  LET i == SkipSpace(s, 1)
      j == IF i <= Len(s) /\ s[i] = 43 THEN i + 1 ELSE i
      d == DigitRun(s, j)
  IN  IF d = <<>> THEN <<48>>
      ELSE IF Len(StripZeros(d)) > 18 THEN <<>>
      ELSE StripZeros(d)

(***************************************************************************)
(* Error codes                                                             *)
(***************************************************************************)
\* Error codes that the I/O back end can return from a failed call.
BackendErrors == {28}
sc_MPI_ERR_UNKNOWN == 99

\* libsc's sc_io_error_class: success stays success, an error code that is
\* a known class stays, anything else becomes the class "unknown".
sc_io_error_class(e) ==
  IF e = sc_MPI_SUCCESS THEN sc_MPI_SUCCESS
  ELSE IF e = P4EST_ERR_IO \/ e \in BackendErrors THEN e
  ELSE sc_MPI_ERR_UNKNOWN

p4est_file_error_code(errcode) ==
  IF errcode = P4EST_FILE_COUNT_ERROR THEN errcode
  ELSE sc_io_error_class(errcode)

(***************************************************************************)
(* Padding                                                                 *)
(***************************************************************************)
\* The number of padding bytes without the step from 0 and 1 to divisor
\* and divisor + 1.
NumPadBytesNoStep(num_bytes, divisor) ==
  (divisor - (num_bytes % divisor)) % divisor

\* get_padding_string: the number of padding bytes for num_bytes.
NumPadBytes(num_bytes, divisor) ==
  LET n == (divisor - (num_bytes % divisor)) % divisor
  IN  IF n = 0 \/ n = 1 THEN n + divisor ELSE n

\* The padding with a buffer size of n instead of n + 1: the closing
\* newline is cut.
PadStringCut(num_bytes, divisor) ==
  LET n == NumPadBytes(num_bytes, divisor)
  IN  Take(<<NL>> \o FmtLeft(<<>>, n - 2) \o <<NL>>, n - 1)

\* get_padding_string: what snprintf (pad, n + 1, "\n%-*s\n", n - 2, "")
\* produces: the characters before the terminating NUL.
PadString(num_bytes, divisor) ==
  LET n == NumPadBytes(num_bytes, divisor)
  IN  Take(<<NL>> \o FmtLeft(<<>>, n - 2) \o <<NL>>, n)

\* The bytes get_padding_string stores into pad, the NUL included.
PadStored(num_bytes, divisor) == NumPadBytes(num_bytes, divisor) + 1

(***************************************************************************)
(* Header strings                                                          *)
(***************************************************************************)
\* The version string of the library, at most 23 characters ("2.8").
p4est_version == <<50, 46, 56>>

\* snprintf (metadata, 64 + 16 + 1, "%.7s\n%-23s\n%-47s\n%.16lld\n%-14s\n", ...)
FileHeaderStringFull(user_string, global_num_quadrants) ==
  FmtPrec(P4EST_MAGIC_NUMBER, 7) \o <<NL>> \o
  FmtLeft(p4est_version, 23) \o <<NL>> \o
  FmtLeft(user_string, 47) \o <<NL>> \o
  FmtZeroPad(global_num_quadrants, 16) \o <<NL>> \o
  FmtLeft(<<>>, 14) \o <<NL>>

FileHeaderString(user_string, global_num_quadrants) ==
  Take(FileHeaderStringFull(user_string, global_num_quadrants),
       P4EST_NUM_METADATA_BYTES + P4EST_BYTE_DIV)

\* The section header with the size printed without leading zeros.
SectionHeaderStringNoPad(block_type, data_size, user_string) ==
  Take(<<block_type, SP>> \o DecDigits(data_size) \o <<NL>> \o
       FmtLeft(user_string, 47) \o <<NL>>, P4EST_NUM_FIELD_HEADER_BYTES)

\* snprintf (header_metadata, 64 + 1, "H %.13llu\n%-47s\n", size, user_string)
\* and the same with "F" in write_field, for the size with the decimal
\* digits d.
SectionHeaderDigits(block_type, d, user_string) ==
  Take(<<block_type, SP>> \o ZeroPadDigits(d, 13) \o <<NL>> \o
       FmtLeft(user_string, 47) \o <<NL>>, P4EST_NUM_FIELD_HEADER_BYTES)

\* snprintf (header_metadata, 64 + 1, "H %.13llu\n%-47s\n", size, user_string)
\* and the same with "F" in write_field.
SectionHeaderString(block_type, data_size, user_string) ==
  SectionHeaderDigits(block_type, DecDigits(data_size), user_string)

(***************************************************************************)
(* The file and the I/O back end (the sc_io functions of libsc)            *)
(***************************************************************************)
\* sc_io_write_at: bytes stored at offset off; a gap is zero-filled.
WriteAt(f, off, bytes) ==
  LET n == Len(bytes)
      len == Len(f)
  IN  IF n = 0 THEN f
      ELSE (IF off <= len THEN SubSeq(f, 1, off)
            ELSE f \o Fill(0, off - len))
           \o bytes \o SubSeq(f, off + n + 1, len)

\* sc_io_read_at: the bytes at [off, off + n) that the file holds; fewer
\* than n at the end of the file.
ReadAt(f, off, n) ==
  IF off >= Len(f) THEN <<>> ELSE SubSeq(f, off + 1, Min(off + n, Len(f)))

\* MPI_File_set_size
SetSize(f, n) ==
  IF n <= Len(f) THEN SubSeq(f, 1, n) ELSE f \o Fill(0, n - Len(f))

\* The outcome of one I/O call: "ok", "err" (the call returns an error
\* code) or "short" (no error code, one byte less than requested).
FaultKinds == {"err", "short"}
NoFault == [step |-> "none", kind |-> "ok", who |-> {}]

\* The bytes a write call stores under outcome kind.
Written(bytes, kind) ==
  IF kind = "ok" THEN bytes
  ELSE IF kind = "short" THEN Take(bytes, Len(bytes) - 1)
  ELSE <<>>

(***************************************************************************)
(* File contexts and return values                                         *)
(***************************************************************************)
Ranks(P) == 0 .. (P - 1)

\* struct p4est_file_context of one rank.  st is "none" before the
\* allocation, "live" while allocated, "freed" after P4EST_FREE (fc).
\* file is the state of fc->file.  gfq is <<>> for a NULL pointer.
\* gfq_mem follows the array allocated for an owned partition:
\* "none", "alloc", "freed" or "leaked" (context freed, array not).
NoCtx ==
  [st |-> "none", file |-> "closed", local_num_quadrants |-> 0,
   global_num_quadrants |-> 0, gfq |-> <<>>, gfq_owned |-> 0,
   gfq_mem |-> "none", num_calls |-> 0, accessed_bytes |-> 0]

\* p4est_file_error_cleanup (&fc->file); P4EST_FREE (fc);
ErrorCleanupFree(c) ==
  [c EXCEPT !.st = "freed", !.file = "closed",
            !.gfq_mem = IF c.gfq_mem = "alloc" THEN "leaked" ELSE c.gfq_mem]

\* What a call leaves with its caller on one rank: the returned pointer
\* ("fc", "NULL"; "blocked" when the rank waits in a collective no other
\* rank enters; "abort" when the process was aborted), *errcode, and the
\* output buffers.
Ret(val, errcode) ==
  [val |-> val, errcode |-> errcode, data |-> <<>>, user_string |-> <<>>]

NoRet == Ret("none", sc_MPI_SUCCESS)

AllRetFc(P, rt) == \A r \in 0 .. (P - 1) : rt[r].val = "fc"

\* The macros that end in "cleanup, free, p4est_file_error_code, return
\* NULL" (P4EST_FILE_CHECK_NULL, P4EST_HANDLE_MPI_ERROR) with error code e.
RetError(e) == Ret("NULL", p4est_file_error_code(e))

\* P4EST_HANDLE_MPI_COUNT_ERROR on a rank that holds count_error # 0.
RetCountError == Ret("NULL", P4EST_FILE_COUNT_ERROR)

\* A rank-0-local I/O step placed BEFORE the two handler macros
\* P4EST_HANDLE_MPI_ERROR and P4EST_HANDLE_MPI_COUNT_ERROR (both labels lie
\* ahead).  mpiret is the code of a failed call.  On "err" rank 0 jumps to
\* the first label and broadcasts mpiret.  On "short" rank 0 jumps to the
\* second label and broadcasts count_error = 1, which the other ranks
\* receive in the first macro's broadcast, into mpiret.
FrontStepRet(r, kind, mpiret) ==
  IF kind = "err" THEN RetError(mpiret)
  ELSE IF r = 0 THEN RetCountError
  ELSE RetError(1)

\* A rank-0-local I/O step placed AFTER the two handler macros: the goto
\* of P4EST_FILE_CHECK_MPI / P4EST_FILE_CHECK_COUNT_SERIAL jumps backwards
\* into the macro, where rank 0 alone enters the broadcast and returns
\* NULL.  eager tells whether that broadcast returns on the root without a
\* receiver.
BackStepRet0(kind, mpiret, eager) ==
  IF ~eager THEN Ret("blocked", sc_MPI_SUCCESS)
  ELSE IF kind = "err" THEN RetError(mpiret)
  ELSE RetCountError

BackStepCtx0(c, eager) == IF eager THEN ErrorCleanupFree(c) ELSE c

\* The advance without the 64 bytes of the section header.
AdvanceNoHeader(c, payload, num_pad_bytes) ==
  [c EXCEPT !.accessed_bytes = @ + payload + num_pad_bytes,
            !.num_calls = @ + 1]

\* The cursor advance of one section: header, payload and padding.
Advance(c, payload, num_pad_bytes) ==
  [c EXCEPT !.accessed_bytes =
                @ + payload + P4EST_NUM_FIELD_HEADER_BYTES + num_pad_bytes,
            !.num_calls = @ + 1]

Prelude == P4EST_NUM_METADATA_BYTES + P4EST_BYTE_DIV

KindOf(fault, step) == IF fault.step = step THEN fault.kind ELSE "ok"

\* The padding placed behind the payload without the section header.
PaddingOffsetNoHeader(c, payload) == c.accessed_bytes + Prelude + payload

\* The offset of the sc_io_write_at of the padding bytes: behind the file
\* prelude, the sections written so far, the section header and the
\* payload.
PaddingOffset(c, payload) ==
  c.accessed_bytes + Prelude + P4EST_NUM_FIELD_HEADER_BYTES + payload

\* One I/O call of a writer as it reaches the file: what is written, by
\* which rank, and the bytes lo .. hi - 1 it stores.
WriteRec(what, r, off, bytes) ==
  [what |-> what, r |-> r, lo |-> off, hi |-> off + Len(bytes)]

\* MPI_File_set_size (fc->file, n)
SetSizeRec(n) == [what |-> "setsize", r |-> 0, lo |-> n, hi |-> n]

(***************************************************************************)
(* p4est_file_write_header                                                 *)
(***************************************************************************)
\* A writer that never takes the early return.
NothingToWriteNever(size) == FALSE

\* The early return of the writers: "nothing to write".
NothingToWrite(size) == size = 0

\* The result of a collective call: the file, every rank's context and
\* return, and whether rank 0 entered a collective alone (unmatched).
p4est_file_write_header(fcs, f, P, mpiio, header_size, header_data, user_string, fault, mpiret, eager) ==
  LET base == fcs[0].accessed_bytes + Prelude
      meta == SectionHeaderString(CharH, header_size, user_string)
      npad == NumPadBytes(header_size, P4EST_BYTE_DIV)
      pad == PadString(header_size, P4EST_BYTE_DIV)
      f0 == IF mpiio
            THEN SetSize(f, base + header_size + P4EST_NUM_FIELD_HEADER_BYTES)
            ELSE f
      f1 == WriteAt(f0, base, Written(meta, KindOf(fault, "meta")))
      f2 == WriteAt(f1, base + P4EST_NUM_FIELD_HEADER_BYTES,
                    Written(header_data, KindOf(fault, "data")))
      f3 == WriteAt(f2, PaddingOffset(fcs[0], header_size),
                    Written(pad, KindOf(fault, "pad")))
      writes ==
        IF NothingToWrite(header_size) \/ (mpiio /\ fault.step = "setsize")
        THEN <<>>
        ELSE (IF mpiio
              THEN <<SetSizeRec(base + header_size
                                  + P4EST_NUM_FIELD_HEADER_BYTES)>>
              ELSE <<>>)
             \o <<WriteRec("header", 0, base,
                           Written(meta, KindOf(fault, "meta")))>>
             \o (IF fault.step = "meta" THEN <<>>
                 ELSE <<WriteRec("payload", 0,
                                 base + P4EST_NUM_FIELD_HEADER_BYTES,
                                 Written(header_data,
                                         KindOf(fault, "data")))>>)
             \o (IF fault.step \in {"meta", "data"} THEN <<>>
                 ELSE <<WriteRec("padding", 0,
                                 PaddingOffset(fcs[0], header_size),
                                 Written(pad, KindOf(fault, "pad")))>>)
      done == [r \in Ranks(P) |-> Advance(fcs[r], header_size, npad)]
      okret == [r \in Ranks(P) |-> Ret("fc", sc_MPI_SUCCESS)]
      back(ff, kind) ==
        [file |-> ff,
         fc |-> [r \in Ranks(P) |->
                   IF r = 0 THEN BackStepCtx0(fcs[0], eager \/ P = 1)
                   ELSE done[r]],
         ret |-> [r \in Ranks(P) |->
                    IF r = 0 THEN BackStepRet0(kind, mpiret, eager \/ P = 1)
                    ELSE okret[r]],
         unmatched |-> (P > 1), overflow |-> FALSE]
      calls(res) == res @@ [writes |-> writes]
  IN  calls(
      IF NothingToWrite(header_size)
      THEN [file |-> f, fc |-> fcs, ret |-> okret,
            unmatched |-> FALSE, overflow |-> FALSE]
      ELSE IF mpiio /\ fault.step = "setsize"
      THEN [file |-> f,
            fc |-> [r \in Ranks(P) |-> ErrorCleanupFree(fcs[r])],
            ret |-> [r \in Ranks(P) |-> RetError(mpiret)],
            unmatched |-> FALSE, overflow |-> FALSE]
      ELSE IF fault.step = "meta"
      THEN [file |-> f1,
            fc |-> [r \in Ranks(P) |-> ErrorCleanupFree(fcs[r])],
            ret |-> [r \in Ranks(P) |-> FrontStepRet(r, fault.kind, mpiret)],
            unmatched |-> FALSE, overflow |-> FALSE]
      ELSE IF fault.step = "data" THEN back(f2, fault.kind)
      ELSE IF fault.step = "pad"
      THEN [back(f3, fault.kind) EXCEPT
              !.overflow = PadStored(header_size, P4EST_BYTE_DIV)
                             > P4EST_MAX_NUM_PAD_BYTES]
      ELSE [file |-> f3, fc |-> done, ret |-> okret, unmatched |-> FALSE,
            overflow |-> PadStored(header_size, P4EST_BYTE_DIV)
                           > P4EST_MAX_NUM_PAD_BYTES])

(***************************************************************************)
(* p4est_file_write_field                                                  *)
(***************************************************************************)
\* The offset counted in quadrants instead of bytes.
WriteOffsetNoScale(c, r, elem_size) == Prelude + c.gfq[r + 1]

\* write_offset of rank r: the rank-dependent byte offset.
WriteOffset(c, r, elem_size) == Prelude + c.gfq[r + 1] * elem_size

\* A collective write that ends at the first rank without bytes.
RECURSIVE WriteAtAllStopAtEmpty(_, _, _, _, _)
WriteAtAllStopAtEmpty(f, n, offs, bufs, who) ==
  IF n = 0 \/ Len(bufs[n - 1]) = 0 THEN f
  ELSE WriteAtAllStopAtEmpty(WriteAt(f, offs[n - 1],
                                     Written(bufs[n - 1],
                                             IF (n - 1) \in who
                                             THEN "short" ELSE "ok")),
                             n - 1, offs, bufs, who)

\* sc_io_write_at_all: every rank r < n stores its own bytes at its own
\* offset; who is the set of ranks whose call comes back one byte short.
RECURSIVE WriteAtAll(_, _, _, _, _)
WriteAtAll(f, n, offs, bufs, who) ==
  IF n = 0 THEN f
  ELSE WriteAtAll(WriteAt(f, offs[n - 1],
                          Written(bufs[n - 1],
                                  IF (n - 1) \in who THEN "short" ELSE "ok")),
                  n - 1, offs, bufs, who)

\* P4EST_FILE_CHECK_COUNT on rank r when the Allreduce yields a global
\* count error: *errcode follows the rank's own flag.
CheckCountRet(r, who) ==
  Ret("NULL", IF r \in who THEN P4EST_FILE_COUNT_ERROR ELSE sc_MPI_SUCCESS)

p4est_file_write_field(fcs, f, P, mpiio, elem_size, quadrant_data, user_string, fault, mpiret, eager) ==
  LET acc == fcs[0].accessed_bytes
      N == fcs[0].global_num_quadrants
      array_size == N * elem_size
      meta == SectionHeaderString(CharF, elem_size, user_string)
      npad == NumPadBytes(array_size, P4EST_BYTE_DIV)
      pad == PadString(array_size, P4EST_BYTE_DIV)
      offs == [r \in Ranks(P) |->
                 fcs[r].accessed_bytes + WriteOffset(fcs[r], r, elem_size)
                   + P4EST_NUM_FIELD_HEADER_BYTES]
      f0 == IF mpiio
            THEN SetSize(f, Prelude + array_size
                              + P4EST_NUM_FIELD_HEADER_BYTES + acc)
            ELSE f
      f1 == WriteAt(f0, acc + WriteOffset(fcs[0], 0, elem_size),
                    Written(meta, KindOf(fault, "meta")))
      f2 == IF KindOf(fault, "coll") = "err" THEN f1
            ELSE WriteAtAll(f1, P, offs, quadrant_data, fault.who)
      f3 == WriteAt(f2, PaddingOffset(fcs[0], array_size),
                    Written(pad, KindOf(fault, "pad")))
      writes ==
        IF NothingToWrite(elem_size) \/ (mpiio /\ fault.step = "setsize")
        THEN <<>>
        ELSE (IF mpiio
              THEN <<SetSizeRec(Prelude + array_size
                                  + P4EST_NUM_FIELD_HEADER_BYTES + acc)>>
              ELSE <<>>)
             \o <<WriteRec("header", 0,
                           acc + WriteOffset(fcs[0], 0, elem_size),
                           Written(meta, KindOf(fault, "meta")))>>
             \o (IF fault.step = "meta" \/ KindOf(fault, "coll") = "err"
                 THEN <<>>
                 ELSE [i \in 1 .. P |->
                         WriteRec("payload", i - 1, offs[i - 1],
                                  Written(quadrant_data[i - 1],
                                          IF (i - 1) \in fault.who
                                          THEN "short" ELSE "ok"))])
             \o (IF fault.step \in {"meta", "coll"} THEN <<>>
                 ELSE <<WriteRec("padding", 0,
                                 PaddingOffset(fcs[0], array_size),
                                 Written(pad, KindOf(fault, "pad")))>>)
      done == [r \in Ranks(P) |-> Advance(fcs[r], array_size, npad)]
      okret == [r \in Ranks(P) |-> Ret("fc", sc_MPI_SUCCESS)]
      freed == [r \in Ranks(P) |-> ErrorCleanupFree(fcs[r])]
      over == PadStored(array_size, P4EST_BYTE_DIV) > P4EST_MAX_NUM_PAD_BYTES
      ranges == [r \in Ranks(P) |->
                   [lo |-> offs[r], hi |-> offs[r] + Len(quadrant_data[r])]]
      res(ff, c, rt, um, ov) ==
        [file |-> ff, fc |-> c, ret |-> rt, unmatched |-> um,
         overflow |-> ov, ranges |-> ranges, writes |-> writes]
  IN  IF NothingToWrite(elem_size) THEN res(f, fcs, okret, FALSE, FALSE)
      ELSE IF mpiio /\ fault.step = "setsize"
      THEN res(f, freed, [r \in Ranks(P) |-> RetError(mpiret)], FALSE, FALSE)
      ELSE IF fault.step = "meta"
      THEN res(f1, freed,
               [r \in Ranks(P) |-> FrontStepRet(r, fault.kind, mpiret)],
               FALSE, FALSE)
      ELSE IF fault.step = "coll" /\ fault.kind = "err"
      THEN res(f2, freed, [r \in Ranks(P) |-> RetError(mpiret)], FALSE, FALSE)
      ELSE IF fault.step = "coll"
      THEN res(f2, freed, [r \in Ranks(P) |-> CheckCountRet(r, fault.who)],
               FALSE, FALSE)
      ELSE IF fault.step = "pad"
      THEN res(f3,
               [r \in Ranks(P) |->
                  IF r = 0 THEN BackStepCtx0(fcs[0], eager \/ P = 1)
                  ELSE done[r]],
               [r \in Ranks(P) |->
                  IF r = 0
                  THEN BackStepRet0(fault.kind, mpiret, eager \/ P = 1)
                  ELSE okret[r]],
               P > 1, over)
      ELSE res(f3, done, okret, FALSE, over)

(***************************************************************************)
(* p4est_file_open_create and p4est_file_close                             *)
(***************************************************************************)
\* The forest as far as the file functions look at it.
Forest(N, P, gfq) ==
  [global_num_quadrants |-> N, mpisize |-> P, global_first_quadrant |-> gfq]

LocalNumQuadrants(p4est, r) ==
  p4est.global_first_quadrant[r + 2] - p4est.global_first_quadrant[r + 1]

\* The outcome of a short count on rank 0 is given by garbage: rank 0
\* broadcasts over fc->mpicomm before the context is initialized.  Either
\* the MPI library aborts the job or the broadcast goes through.
p4est_file_open_create(p4est, user_string, fault, mpiret, garbage) ==
  LET P == p4est.mpisize
      metadata == FileHeaderString(user_string, p4est.global_num_quadrants)
      f1 == WriteAt(<<>>, 0, Written(metadata, KindOf(fault, "meta")))
      opened == [NoCtx EXCEPT !.st = "live", !.file = "open"]
      ctx(r) == [opened EXCEPT
                   !.local_num_quadrants = LocalNumQuadrants(p4est, r),
                   !.global_num_quadrants = p4est.global_num_quadrants,
                   !.gfq = p4est.global_first_quadrant,
                   !.gfq_owned = 1, !.gfq_mem = "alloc",
                   !.accessed_bytes = 0, !.num_calls = 0]
      freed == [r \in Ranks(P) |-> ErrorCleanupFree(opened)]
      res(ff, c, rt) == [file |-> ff, fc |-> c, ret |-> rt]
  IN  IF fault.step = "open"
      THEN res(<<>>, freed, [r \in Ranks(P) |-> RetError(mpiret)])
      ELSE IF fault.step = "meta" /\ fault.kind = "err"
      THEN res(f1, freed, [r \in Ranks(P) |-> RetError(mpiret)])
      ELSE IF fault.step = "meta" /\ garbage = "abort"
      THEN res(f1, [r \in Ranks(P) |-> opened],
               [r \in Ranks(P) |-> Ret("abort", sc_MPI_SUCCESS)])
      ELSE IF fault.step = "meta"
      THEN res(f1, freed,
               [r \in Ranks(P) |-> FrontStepRet(r, "short", mpiret)])
      ELSE res(f1, [r \in Ranks(P) |-> ctx(r)],
               [r \in Ranks(P) |-> Ret("fc", sc_MPI_SUCCESS)])

\* p4est_file_close on one rank; kind is the outcome of sc_io_close.
CloseCtx(c, kind) ==
  IF kind = "err" THEN c
  ELSE [c EXCEPT !.st = "freed", !.file = "closed",
                 !.gfq_mem = IF c.gfq_owned = 1 THEN "freed" ELSE @]

p4est_file_close(fcs, P, fault, mpiret) ==
  [fc |-> [r \in Ranks(P) |-> CloseCtx(fcs[r], fault.kind)],
   ret |-> [r \in Ranks(P) |->
              IF fault.kind = "err"
              THEN Ret("-1", p4est_file_error_code(mpiret))
              ELSE Ret("0", sc_MPI_SUCCESS)]]

(***************************************************************************)
(* check_file_metadata                                                     *)
(***************************************************************************)
\* b with the C element b[i] replaced by c.
SetAt(b, i, c) == [b EXCEPT ![i + 1] = c]

\* The callers read 64 bytes into char metadata[64 + 1] and store a NUL
\* behind them; check_file_metadata then looks at elements up to 96.  mem
\* is the memory it sees: the 64 bytes read, the NUL, and behind the array
\* the 32 bytes oob that happen to lie there.
MetadataMemory(read, oob) == read \o <<NUL>> \o oob

check_file_metadata(mem) ==
  LET m1 == SetAt(mem, P4EST_NUM_MAGIC_BYTES - 1, NUL)
      vend == P4EST_NUM_MAGIC_BYTES + P4EST_NUM_VERSION_STR_BYTES - 1
      m2 == SetAt(m1, vend, NUL)
      uend == P4EST_NUM_MAGIC_BYTES + P4EST_NUM_VERSION_STR_BYTES
                + P4EST_NUM_USER_STRING_BYTES - 1
      m3 == SetAt(m2, P4EST_NUM_METADATA_BYTES, NUL)
      user_string ==
        StrNCpy(CStrAt(m2, vend + 2), P4EST_NUM_USER_STRING_BYTES - 1)
          \o <<NUL>>
      numstr == CStrAt(m3, uend + 2)
      num == sc_atol(numstr)
      error_flag == (CStrAt(m1, 1) # P4EST_MAGIC_NUMBER) \/ num < 0
      bad == [err |-> P4EST_ERR_IO, user_string |-> <<>>,
              global_num_quadrants |-> 0]
  IN  IF mem[P4EST_NUM_MAGIC_BYTES] # NL THEN bad
      ELSE IF m1[vend + 1] # NL THEN bad
      ELSE IF Len(CStrAt(m2, P4EST_NUM_MAGIC_BYTES + 1))
                # P4EST_NUM_VERSION_STR_BYTES - 1 THEN bad
      ELSE IF m2[uend + 1] # NL THEN bad
      ELSE IF Len(numstr) # 16 THEN [bad EXCEPT !.user_string = user_string]
      ELSE [err |-> IF error_flag THEN P4EST_ERR_IO ELSE sc_MPI_SUCCESS,
            user_string |-> user_string, global_num_quadrants |-> num]

(***************************************************************************)
(* p4est_file_open_read_ext and p4est_file_open_read                       *)
(***************************************************************************)
\* A read that comes back with fewer bytes than requested, by an injected
\* fault or at the end of the file.
ReadKind(fault, step, got, want) ==
  IF KindOf(fault, step) = "err" THEN "err"
  ELSE IF KindOf(fault, step) = "short" \/ Len(got) < want THEN "short"
  ELSE "ok"

p4est_file_open_read_ext(P, f, fault, mpiret, oob) ==
  LET opened == [NoCtx EXCEPT !.st = "live", !.file = "open"]
      freed == [r \in Ranks(P) |-> ErrorCleanupFree(opened)]
      got == ReadAt(f, 0, P4EST_NUM_METADATA_BYTES)
      kind == ReadKind(fault, "meta", got, P4EST_NUM_METADATA_BYTES)
      chk == check_file_metadata(MetadataMemory(got, oob))
      res(c, rt, n) == [fc |-> c, ret |-> rt, global_num_quadrants |-> n]
  IN  IF fault.step = "open"
      THEN res(freed, [r \in Ranks(P) |-> RetError(mpiret)], 0)
      ELSE IF kind # "ok"
      THEN res(freed, [r \in Ranks(P) |-> FrontStepRet(r, kind, mpiret)], 0)
      ELSE IF chk.err # sc_MPI_SUCCESS
      THEN res(freed, [r \in Ranks(P) |-> RetError(chk.err)], 0)
      ELSE res([r \in Ranks(P) |->
                  [opened EXCEPT
                     !.global_num_quadrants = chk.global_num_quadrants]],
               [r \in Ranks(P) |->
                  [Ret("fc", sc_MPI_SUCCESS) EXCEPT
                     !.user_string = chk.user_string]],
               chk.global_num_quadrants)

p4est_file_open_read(forest, f, fault, mpiret, oob) ==
  LET P == forest.mpisize
      ext == p4est_file_open_read_ext(P, f, fault, mpiret, oob)
      opened == AllRetFc(P, ext.ret)
  IN  IF opened /\ forest.global_num_quadrants # ext.global_num_quadrants
      THEN \* p4est_file_close; a failed close leaves its code to
           \* P4EST_FILE_CHECK_NULL, a clean one leaves success
           [fc |-> [r \in Ranks(P) |->
                      IF KindOf(fault, "close") = "err"
                      THEN ErrorCleanupFree(ext.fc[r])
                      ELSE CloseCtx(ext.fc[r], "ok")],
            ret |-> [r \in Ranks(P) |->
                       [ext.ret[r] EXCEPT
                          !.val = "NULL",
                          !.errcode = IF KindOf(fault, "close") = "err"
                                      THEN p4est_file_error_code(mpiret)
                                      ELSE sc_MPI_SUCCESS]]]
      ELSE IF opened
      THEN [fc |-> [r \in Ranks(P) |->
                      [ext.fc[r] EXCEPT
                         !.gfq = forest.global_first_quadrant,
                         !.gfq_owned = 0]],
            ret |-> ext.ret]
      ELSE [fc |-> ext.fc, ret |-> ext.ret]

(***************************************************************************)
(* read_block_metadata                                                     *)
(***************************************************************************)
\* The result carries ok (every rank got fc back), and otherwise each
\* rank's return; every failing branch frees the context on every rank.
\* want_user_string stands for user_string != NULL.
read_block_metadata(fcs, f, P, data_size, block_type, want_user_string, fault, mpiret) ==
  LET c0 == fcs[0]
      base == c0.accessed_bytes + Prelude
      bytes_to_read == IF want_user_string THEN P4EST_NUM_FIELD_HEADER_BYTES
                       ELSE P4EST_NUM_ARRAY_METADATA_BYTES + 2
      got == ReadAt(f, base, bytes_to_read)
      kind == ReadKind(fault, "meta", got, bytes_to_read)
      bm == got
      b1 == SetAt(bm, P4EST_NUM_ARRAY_METADATA_BYTES + 1, NUL)
      read_data_size == sc_atol(CStrAt(b1, 3))
      b2 == SetAt(b1, P4EST_NUM_FIELD_HEADER_BYTES - 1, NUL)
      user_string ==
        IF want_user_string
        THEN StrNCpy(CStrAt(b2, P4EST_NUM_ARRAY_METADATA_BYTES + 3),
                     P4EST_NUM_USER_STRING_BYTES)
        ELSE <<>>
      data_block_size == IF bm[1] = CharF
                         THEN read_data_size * c0.global_num_quadrants
                         ELSE read_data_size
      num_pad_bytes == NumPadBytes(data_block_size, P4EST_BYTE_DIV)
      padgot == ReadAt(f, base + P4EST_NUM_FIELD_HEADER_BYTES
                            + data_block_size, num_pad_bytes)
      padkind == ReadKind(fault, "pad", padgot, num_pad_bytes)
      err_flag == padgot[1] # NL \/ padgot[num_pad_bytes] # NL
      fail(rt) == [ok |-> FALSE, ret |-> rt, read_data_size |-> 0]
      all(rt) == fail([r \in Ranks(P) |-> rt])
      withus(rt) == [rt EXCEPT !.user_string = user_string]
  IN  IF kind # "ok"
      THEN fail([r \in Ranks(P) |-> FrontStepRet(r, kind, mpiret)])
      ELSE IF bm[1] # block_type THEN all(RetError(P4EST_ERR_IO))
      ELSE IF bm[P4EST_NUM_ARRAY_METADATA_BYTES + 2] # NL
      THEN all(RetError(P4EST_ERR_IO))
      ELSE IF want_user_string /\ read_data_size # data_size
      THEN all(RetError(P4EST_ERR_IO))
      ELSE IF want_user_string /\ bm[P4EST_NUM_FIELD_HEADER_BYTES] # NL
      THEN all(RetError(P4EST_ERR_IO))
      ELSE IF padkind # "ok"
      THEN \* rank 0 jumps back into a handler macro and broadcasts mpiret
           \* or count_error; the other ranks receive it as err_flag
           fail([r \in Ranks(P) |->
                   withus(IF r # 0 THEN RetError(P4EST_ERR_IO)
                          ELSE IF padkind = "err" THEN RetError(mpiret)
                          ELSE RetCountError)])
      ELSE IF err_flag THEN all(withus(RetError(P4EST_ERR_IO)))
      ELSE [ok |-> TRUE,
            ret |-> [r \in Ranks(P) |->
                       withus(Ret("fc", sc_MPI_SUCCESS))],
            read_data_size |-> read_data_size]

(***************************************************************************)
(* p4est_file_read_header                                                  *)
(***************************************************************************)
\* The MPI I/O builds compare the file size with the request,
\* ((size_t) size) - 64 - 16 - 64 < bytes, in unsigned arithmetic: below
\* 144 bytes the difference wraps to a value no request reaches.
FileTooSmall(size, bytes) ==
  /\ size >= Prelude + P4EST_NUM_FIELD_HEADER_BYTES
  /\ size - Prelude - P4EST_NUM_FIELD_HEADER_BYTES < bytes

\* mpiret = p4est_file_close (fc, &mpiret); P4EST_FILE_CHECK_NULL (mpiret..):
\* a clean close leaves success in *errcode, a failed one its return -1.
CloseOnSmallFileCtx(c, fault) ==
  IF KindOf(fault, "close") = "err" THEN ErrorCleanupFree(c)
  ELSE CloseCtx(c, "ok")

CloseOnSmallFileRet(fault) ==
  IF KindOf(fault, "close") = "err" THEN RetError(0 - 1)
  ELSE Ret("NULL", sc_MPI_SUCCESS)

\* The caller's p4est_file_error_code (*errcode, errcode) on a return.
Normalized(rt) == [rt EXCEPT !.errcode = p4est_file_error_code(@)]

\* has_data stands for header_data != NULL.
p4est_file_read_header(fcs, f, P, mpiio, header_size, has_data, fault, mpiret) ==
  LET num_pad_bytes == NumPadBytes(header_size, P4EST_BYTE_DIV)
      skip == read_block_metadata(fcs, f, P, 0, CharH, FALSE, fault, mpiret)
      rbm == read_block_metadata(fcs, f, P, header_size, CharH, TRUE,
                                 fault, mpiret)
      freed == [r \in Ranks(P) |-> ErrorCleanupFree(fcs[r])]
      done == [r \in Ranks(P) |-> Advance(fcs[r], header_size, num_pad_bytes)]
      got == ReadAt(f, fcs[0].accessed_bytes + Prelude
                         + P4EST_NUM_FIELD_HEADER_BYTES, header_size)
      kind == ReadKind(fault, "data", got, header_size)
      res(c, rt) == [fc |-> c, ret |-> rt]
  IN  IF ~has_data \/ header_size = 0
      THEN IF ~skip.ok
           THEN res(freed, [r \in Ranks(P) |-> Normalized(skip.ret[r])])
           ELSE res(done, [r \in Ranks(P) |-> Ret("NULL", sc_MPI_SUCCESS)])
      ELSE IF mpiio /\ fault.step = "getsize"
      THEN res(freed, [r \in Ranks(P) |-> RetError(mpiret)])
      ELSE IF mpiio /\ FileTooSmall(Len(f), header_size)
      THEN res([r \in Ranks(P) |-> CloseOnSmallFileCtx(fcs[r], fault)],
               [r \in Ranks(P) |-> CloseOnSmallFileRet(fault)])
      ELSE IF ~rbm.ok
      THEN res(freed, [r \in Ranks(P) |-> Normalized(rbm.ret[r])])
      ELSE IF kind # "ok"
      THEN res(freed,
               [r \in Ranks(P) |->
                  [FrontStepRet(r, kind, mpiret) EXCEPT
                     !.user_string = rbm.ret[r].user_string]])
      ELSE res(done, [r \in Ranks(P) |-> [rbm.ret[r] EXCEPT !.data = got]])

(***************************************************************************)
(* p4est_file_read_field_ext and p4est_file_read_field                     *)
(***************************************************************************)
\* The offset counted in quadrants instead of bytes.
ReadOffsetNoScale(c, gfq, r, elem_size) ==
  c.accessed_bytes + Prelude + P4EST_NUM_FIELD_HEADER_BYTES + gfq[r + 1]

\* The offset of rank r in sc_io_read_at_all.
ReadOffset(c, gfq, r, elem_size) ==
  c.accessed_bytes + Prelude + P4EST_NUM_FIELD_HEADER_BYTES
    + gfq[r + 1] * elem_size

ReadFieldResult(c, rt, e) == [fc |-> c, ret |-> rt, early |-> e]

\* The skipping call: the cursor moves over the section whose size
\* read_block_metadata found (skip).
ReadFieldSkip(fcs, P, skip) ==
  LET N == fcs[0].global_num_quadrants
  IN  IF ~skip.ok
      THEN ReadFieldResult([r \in Ranks(P) |-> ErrorCleanupFree(fcs[r])],
                           [r \in Ranks(P) |-> Normalized(skip.ret[r])], {})
      ELSE ReadFieldResult(
             [r \in Ranks(P) |->
                Advance(fcs[r], skip.read_data_size * N,
                        NumPadBytes(N * skip.read_data_size,
                                    P4EST_BYTE_DIV))],
             [r \in Ranks(P) |-> Ret("NULL", sc_MPI_SUCCESS)], {})

\* The call from read_block_metadata (rbm) on: the collective read of the
\* ranks' records and the count check.
ReadFieldNorm(fcs, f, P, gfq, elem_size, fault, mpiret, rbm) ==
  LET N == fcs[0].global_num_quadrants
      freed == [r \in Ranks(P) |-> ErrorCleanupFree(fcs[r])]
      bytes_to_read == [r \in Ranks(P) |-> (gfq[r + 2] - gfq[r + 1]) * elem_size]
      got == [r \in Ranks(P) |->
                ReadAt(f, ReadOffset(fcs[r], gfq, r, elem_size),
                       bytes_to_read[r])]
      short == {r \in Ranks(P) :
                  \/ KindOf(fault, "coll") = "short" /\ r \in fault.who
                  \/ Len(got[r]) < bytes_to_read[r]}
  IN  IF ~rbm.ok
      THEN ReadFieldResult(freed,
                           [r \in Ranks(P) |-> Normalized(rbm.ret[r])], {})
      ELSE IF KindOf(fault, "coll") = "err"
      THEN ReadFieldResult(freed,
                           [r \in Ranks(P) |->
                              [RetError(mpiret) EXCEPT
                                 !.user_string = rbm.ret[r].user_string]],
                           {})
      ELSE IF short # {}
      THEN ReadFieldResult(freed,
                           [r \in Ranks(P) |->
                              [CheckCountRet(r, short) EXCEPT
                                 !.user_string = rbm.ret[r].user_string]],
                           {})
      ELSE ReadFieldResult(
             [r \in Ranks(P) |->
                Advance(fcs[r], elem_size * N,
                        NumPadBytes(N * elem_size, P4EST_BYTE_DIV))],
             [r \in Ranks(P) |-> [rbm.ret[r] EXCEPT !.data = got[r]]], {})

\* The file size check of the MPI I/O builds let the ranks in early leave.
\* A rank that passed the check while another rank left waits in a
\* collective, or leaves through an error of read_block_metadata when the
\* broadcasts of the root return (norm is the call without the check).
ReadFieldEarly(fcs, P, fault, eager, early, rbm_ok, norm) ==
  IF early = {} THEN norm
  ELSE ReadFieldResult(
         [r \in Ranks(P) |->
            IF r \in early THEN CloseOnSmallFileCtx(fcs[r], fault)
            ELSE IF 0 \in early \/ ~eager \/ rbm_ok THEN fcs[r]
            ELSE norm.fc[r]],
         [r \in Ranks(P) |->
            IF r \in early THEN CloseOnSmallFileRet(fault)
            ELSE IF 0 \in early \/ ~eager \/ rbm_ok
            THEN Ret("blocked", sc_MPI_SUCCESS)
            ELSE norm.ret[r]],
         early)

ReadFieldChecked(fcs, f, P, mpiio, gfq, elem_size, fault, mpiret, eager, rbm) ==
  ReadFieldEarly(fcs, P, fault, eager,
                 IF mpiio
                 THEN {r \in Ranks(P) :
                         FileTooSmall(Len(f),
                                      (gfq[r + 2] - gfq[r + 1]) * elem_size)}
                 ELSE {},
                 rbm.ok,
                 ReadFieldNorm(fcs, f, P, gfq, elem_size, fault, mpiret, rbm))

ReadFieldFrom(fcs, f, P, mpiio, gfq, elem_size, skipping, fault, mpiret, eager, rbm) ==
  IF skipping THEN ReadFieldSkip(fcs, P, rbm)
  ELSE IF mpiio /\ fault.step = "getsize"
  THEN ReadFieldResult([r \in Ranks(P) |-> ErrorCleanupFree(fcs[r])],
                       [r \in Ranks(P) |-> RetError(mpiret)], {})
  ELSE ReadFieldChecked(fcs, f, P, mpiio, gfq, elem_size, fault, mpiret,
                        eager, rbm)

\* has_data stands for quadrant_data != NULL.  The result names in early
\* the ranks that left through the file size check of the MPI I/O builds.
p4est_file_read_field_ext(fcs, f, P, mpiio, gfq, elem_size, has_data, fault, mpiret, eager) ==
  ReadFieldFrom(fcs, f, P, mpiio, gfq, elem_size,
                ~has_data \/ elem_size = 0, fault, mpiret, eager,
                read_block_metadata(fcs, f, P,
                                    IF ~has_data \/ elem_size = 0
                                    THEN 0 ELSE elem_size,
                                    CharF, has_data /\ elem_size # 0,
                                    fault, mpiret))

\* p4est_comm_global_first_quadrant: the uniform partition of N quadrants.
p4est_comm_global_first_quadrant(N, P) ==
  [p \in 1 .. (P + 1) |-> (N * (p - 1)) \div P]

\* After the call p4est_file_read_field looks at fc->global_first_quadrant
\* once more; freed lists the ranks on which fc was freed by then.
\* Where fc was freed the read of fc->global_first_quadrant is a read of
\* freed memory: it yields the old pointer ("same"), another value, with
\* which a partition of the forest that fc borrowed is freed ("other"), or
\* the process is stopped ("fault").
StaleReads == {"same", "other", "fault"}

ReadFieldAfter(P, stale, ext) ==
  [fc |-> ext.fc,
   ret |-> [r \in Ranks(P) |->
              IF ext.fc[r].st = "freed" /\ stale = "fault"
              THEN Ret("abort", sc_MPI_SUCCESS)
              ELSE Normalized(ext.ret[r])],
   early |-> ext.early,
   freed |-> {r \in Ranks(P) : ext.fc[r].st = "freed"},
   stale |-> IF \E r \in Ranks(P) : ext.fc[r].st = "freed"
             THEN stale ELSE "none"]

p4est_file_read_field(fcs, f, P, mpiio, elem_size, has_data, fault, mpiret, eager, stale) ==
  ReadFieldAfter(P, stale,
    p4est_file_read_field_ext(fcs, f, P, mpiio,
                              IF fcs[0].gfq = <<>>
                              THEN p4est_comm_global_first_quadrant(
                                     fcs[0].global_num_quadrants, P)
                              ELSE fcs[0].gfq,
                              elem_size, has_data, fault, mpiret, eager))

(***************************************************************************)
(* p4est_file_info                                                         *)
(***************************************************************************)
\* One entry of data_sections (p4est_file_section_metadata_t).
SectionMetadata(block_type, data_size, user_string) ==
  [block_type |-> block_type, data_size |-> data_size,
   user_string |-> user_string]

\* The loop of rank 0 over the sections from byte offset pos on, secs being
\* the entries pushed so far.  A fault hits the first pass.  err is the
\* error class with which rank 0 returns from inside the loop, or success.
RECURSIVE InfoScan(_, _, _, _, _, _)
InfoScan(f, N, pos, secs, fault, mpiret) ==
  LET first == secs = <<>>
      got == ReadAt(f, pos, P4EST_NUM_FIELD_HEADER_BYTES)
      kind == IF first
              THEN ReadKind(fault, "meta", got, P4EST_NUM_FIELD_HEADER_BYTES)
              ELSE ReadKind(NoFault, "meta", got,
                            P4EST_NUM_FIELD_HEADER_BYTES)
      b1 == SetAt(got, P4EST_NUM_ARRAY_METADATA_BYTES + 1, NUL)
      data_size == sc_atol(CStrAt(b1, 3))
      b2 == SetAt(b1, P4EST_NUM_FIELD_HEADER_BYTES - 1, NUL)
      user_string == StrNCpy(CStrAt(b2, P4EST_NUM_ARRAY_METADATA_BYTES + 3),
                             P4EST_NUM_USER_STRING_BYTES)
      current_size == IF got[1] = CharF THEN N * data_size ELSE data_size
      num_pad_bytes == NumPadBytes(current_size, P4EST_BYTE_DIV)
      padgot == ReadAt(f, pos + P4EST_NUM_FIELD_HEADER_BYTES + current_size,
                       num_pad_bytes)
      padkind == IF first THEN KindOf(fault, "pad") ELSE "ok"
      padread == IF padkind = "short"
                 THEN Take(padgot, Len(padgot) - 1) ELSE padgot
      \* the bytes read overwrite the front of block_metadata; behind a
      \* short read the bytes of the section header remain
      padbuf == padread \o SubSeq(b2, Len(padread) + 1, Len(b2))
      stop(e) == [err |-> e, sections |-> secs]
  IN  IF kind = "err" THEN stop(sc_io_error_class(mpiret))
      ELSE IF kind = "short" THEN stop(sc_MPI_SUCCESS)
      ELSE IF got[1] \notin {CharH, CharF} THEN stop(sc_MPI_SUCCESS)
      ELSE IF got[P4EST_NUM_ARRAY_METADATA_BYTES + 2] # NL
      THEN stop(sc_MPI_SUCCESS)
      ELSE IF got[P4EST_NUM_FIELD_HEADER_BYTES] # NL
      THEN stop(sc_MPI_SUCCESS)
      ELSE IF padkind = "err" THEN stop(sc_io_error_class(mpiret))
      ELSE IF padbuf[1] # NL \/ padbuf[num_pad_bytes] # NL
      THEN stop(sc_MPI_SUCCESS)
      ELSE InfoScan(f, N,
                    pos + P4EST_NUM_FIELD_HEADER_BYTES + current_size
                      + num_pad_bytes,
                    Append(secs,
                           SectionMetadata(got[1], data_size, user_string)),
                    fault, mpiret)

\* The result on one rank: the return value, *errcode, the user string of
\* the file and data_sections.
InfoRet(val, errcode, user_string, sections) ==
  [val |-> val, errcode |-> errcode, data |-> sections,
   user_string |-> user_string]

\* oobs[r] is what lies behind rank r's metadata array.
p4est_file_info(forest, f, mpiio, fault, mpiret, oobs, eager) ==
  LET P == forest.mpisize
      got == ReadAt(f, 0, P4EST_NUM_METADATA_BYTES)
      kind == ReadKind(fault, "file", got, P4EST_NUM_METADATA_BYTES)
      chk == [r \in Ranks(P) |->
                check_file_metadata(MetadataMemory(got, oobs[r]))]
      passed == {r \in Ranks(P) :
                   /\ chk[r].err = sc_MPI_SUCCESS
                   /\ chk[r].global_num_quadrants
                        = forest.global_num_quadrants}
      scan == InfoScan(f, forest.global_num_quadrants, Prelude, <<>>,
                       fault, mpiret)
      closecode(r) ==
        IF KindOf(fault, "close") = "err" /\ (mpiio \/ r = 0)
        THEN sc_io_error_class(mpiret) ELSE sc_MPI_SUCCESS
      all(rt) == [r \in Ranks(P) |-> rt]
  IN  IF fault.step = "open"
      THEN all(InfoRet("-1", p4est_file_error_code(mpiret), <<>>, <<>>))
      ELSE IF kind = "err"
      THEN [r \in Ranks(P) |->
              InfoRet("-1",
                      IF r = 0 THEN p4est_file_error_code(mpiret)
                      ELSE sc_MPI_SUCCESS, <<>>, <<>>)]
      ELSE IF kind = "short"
      THEN all(InfoRet("-1", P4EST_FILE_COUNT_ERROR, <<>>, <<>>))
      ELSE [r \in Ranks(P) |->
              IF r \notin passed
              THEN InfoRet("-1", P4EST_ERR_IO, chk[r].user_string, <<>>)
              ELSE IF 0 \notin passed
              THEN InfoRet("blocked", sc_MPI_SUCCESS, chk[r].user_string,
                           <<>>)
              ELSE IF scan.err # sc_MPI_SUCCESS
              THEN IF r = 0
                   THEN InfoRet("-1", scan.err, chk[r].user_string,
                                scan.sections)
                   ELSE InfoRet("blocked", sc_MPI_SUCCESS,
                                chk[r].user_string, <<>>)
              ELSE IF r = 0 /\ passed # Ranks(P) /\ ~eager
              THEN InfoRet("blocked", sc_MPI_SUCCESS, chk[r].user_string,
                           scan.sections)
              ELSE InfoRet("0", closecode(r), chk[r].user_string,
                           scan.sections)]

(***************************************************************************)
(* Inputs                                                                  *)
(***************************************************************************)
\* The partitions of N quadrants among P ranks: gfq[0] = 0, gfq[P] = N,
\* non-decreasing.
Partitions(N, P) ==
  {g \in [1 .. (P + 1) -> 0 .. N] :
     /\ g[1] = 0
     /\ g[P + 1] = N
     /\ \A i \in 1 .. P : g[i] <= g[i + 1]}

ForestsOf(N) ==
  UNION {{Forest(N, P, g) : g \in Partitions(N, P)} : P \in 1 .. MaxProcs}

AllForests == UNION {ForestsOf(N) : N \in 0 .. MaxQuads}

\* "greet", "hello" and a string of the full 47 characters
StrGreet == <<103, 114, 101, 101, 116>>
StrHello == <<104, 101, 108, 108, 111>>
\* A user string that starts with a newline.
StrNewline == <<10, 97>>
Str47 == [i \in 1 .. 47 |-> 97 + (i % 26)]

\* The header blocks a writer passes: size, data and user string.
HeaderBlob(size) ==
  IF size = 5 THEN StrHello ELSE [j \in 1 .. size |-> 64 + j]

HeaderInputs ==
  {[size |-> 0, user_string |-> StrGreet],
   [size |-> 5, user_string |-> StrGreet],
   [size |-> 15, user_string |-> Str47],
   [size |-> 15, user_string |-> StrNewline]}

\* The fields a writer passes: the element size and the user string; the
\* record of global quadrant g holds the bytes QuadRecord(g, s).
FieldInputs ==
  {[elem_size |-> 0, user_string |-> StrGreet],
   [elem_size |-> 1, user_string |-> <<>>],
   [elem_size |-> 8, user_string |-> StrGreet]}

QuadRecord(g, s) == [j \in 1 .. s |-> 128 + ((g * s + j) % 100)]

RECURSIVE GlobalPayload(_, _)
GlobalPayload(n, s) ==
  IF n = 0 THEN <<>> ELSE GlobalPayload(n - 1, s) \o QuadRecord(n - 1, s)

\* The array of rank r under partition gfq: its quadrants' records.
LocalArray(gfq, r, s) ==
  SubSeq(GlobalPayload(gfq[Len(gfq)], s), gfq[r + 1] * s + 1, gfq[r + 2] * s)

RECURSIVE ConcatRanks(_, _)
ConcatRanks(bufs, n) ==
  IF n = 0 THEN <<>> ELSE ConcatRanks(bufs, n - 1) \o bufs[n - 1]

\* The faults that can be injected into the I/O steps of a call.
Fault(step, kind, who) == [step |-> step, kind |-> kind, who |-> who]

StepFaults(steps) ==
  {Fault(st, k, {}) : st \in steps, k \in FaultKinds}

WriteHeaderFaults(mpiio) ==
  {NoFault} \cup StepFaults({"meta", "data", "pad"})
    \cup (IF mpiio THEN {Fault("setsize", "err", {})} ELSE {})

\* In a collective transfer a non-empty set of ranks that transfer at
\* least one byte can come back short.
CollFaults(P, bufs) ==
  {Fault("coll", "short", w) :
     w \in (SUBSET {r \in Ranks(P) : Len(bufs[r]) > 0}) \ {{}}}
    \cup {Fault("coll", "err", {})}

WriteFieldFaults(mpiio, P, bufs) ==
  {NoFault} \cup StepFaults({"meta", "pad"}) \cup CollFaults(P, bufs)
    \cup (IF mpiio THEN {Fault("setsize", "err", {})} ELSE {})

\* Whether the root's lone broadcast returns matters only after a
\* backward jump.
EagerChoices(fault, steps) ==
  IF fault.step \in steps THEN BOOLEAN ELSE {TRUE}

\* What lies behind char metadata[64 + 1] when check_file_metadata reads
\* past it is not defined.  Two of the possible contents are followed: zero
\* bytes, and bytes that look like the rest of the 96-byte file header for
\* the n quadrants of the forest that wrote the file.
OobZero == Fill(NUL, 32)

OobHeaderTail(n) ==
  Fill(SP, 14) \o <<NL>> \o FmtZeroPad(n, 16) \o <<NUL>>

OobChoices(n) == {OobZero, OobHeaderTail(n)}

\* The read calls of a reader: the size passed and whether a buffer is
\* passed.
ReadHeaderInputs ==
  {[size |-> sz, has_data |-> hd] : sz \in {0, 5, 15}, hd \in BOOLEAN}

ReadFieldInputs ==
  {[elem_size |-> 0, has_data |-> FALSE]}
    \cup {[elem_size |-> sz, has_data |-> TRUE] : sz \in {0, 1, 8, 17}}

BuildFaults(mpiio) ==
  IF mpiio THEN {Fault("getsize", "err", {}), Fault("close", "err", {})}
  ELSE {}

ReadHeaderFaults(mpiio, in) ==
  IF in.has_data /\ in.size > 0
  THEN {NoFault} \cup StepFaults({"meta", "pad", "data"})
         \cup BuildFaults(mpiio)
  ELSE {NoFault} \cup StepFaults({"meta", "pad"})

ReadFieldFaults(mpiio, P, gfq, in) ==
  IF in.has_data /\ in.elem_size > 0
  THEN {NoFault} \cup StepFaults({"meta", "pad"})
         \cup {Fault("coll", "short", w) :
                 w \in (SUBSET {r \in Ranks(P) : gfq[r + 2] > gfq[r + 1]})
                         \ {{}}}
         \cup {Fault("coll", "err", {})} \cup BuildFaults(mpiio)
  ELSE {NoFault} \cup StepFaults({"meta", "pad"})

(***************************************************************************)
(* State                                                                   *)
(***************************************************************************)
VARIABLES
  mpiio,    \* the build: TRUE with P4EST_ENABLE_MPIIO
  p4est,    \* the forest of the running program
  file,     \* the bytes of the data file
  fc,       \* rank -> file context
  ret,      \* rank -> what the last call returned
  phase,    \* "start", "write", "closed", "read", "end", "info" or "dead"
  wlog,     \* the sections written so far (history)
  last,     \* the last call and its inputs (history)
  aux,      \* observations of the last call (history)
  rd,       \* the reader's position among the sections (history)
  pi,       \* two runs that write the same sections (partition independence)
  damage,   \* what happened to the closed file before it is read (history)
  df        \* a call of p4est_deflate_quadrants: its inputs and its results

vars ==
  <<mpiio, p4est, file, fc, ret, phase, wlog, last, aux, rd, pi, damage, df>>

\* The closed file is read as it was written.
NoDamage == [kind |-> "none"]

\* p4est_deflate_quadrants is not called.
NoDeflate == [st |-> "none"]

NoAux ==
  [unmatched |-> FALSE, overflow |-> FALSE, ranges |-> <<>>, writes |-> <<>>]
ReadAux(early, freed, stale) ==
  [unmatched |-> FALSE, overflow |-> FALSE, ranges |-> <<>>,
   writes |-> <<>>, early |-> early, freed |-> freed, stale |-> stale]
NoRd == [k |-> 0, skipped |-> FALSE, written |-> 0]
NoLast == [op |-> "none"]
NoPi == [st |-> "none"]

AllRet(P, rt, v) == \A r \in Ranks(P) : rt[r].val = v

NextPhase(P, rt, ok) == IF AllRet(P, rt, "fc") THEN ok ELSE "dead"

Init ==
  /\ mpiio \in BOOLEAN
  /\ p4est \in AllForests
  /\ file = <<>>
  /\ fc = [r \in Ranks(p4est.mpisize) |-> NoCtx]
  /\ ret = [r \in Ranks(p4est.mpisize) |-> NoRet]
  /\ phase = "start"
  /\ wlog = <<>>
  /\ last = NoLast
  /\ aux = NoAux
  /\ rd = NoRd
  /\ pi = NoPi
  /\ damage = NoDamage
  /\ df = NoDeflate

(***************************************************************************)
(* The writer                                                              *)
(***************************************************************************)
OpenCreate ==
  /\ phase = "start"
  /\ \E fault \in {NoFault, Fault("open", "err", {})}
                    \cup StepFaults({"meta"}),
        mpiret \in BackendErrors, garbage \in {"abort", "valid"} :
       \E res \in {p4est_file_open_create(p4est, StrGreet, fault, mpiret,
                                          garbage)} :
           /\ (garbage = "abort" => fault = Fault("meta", "short", {}))
           /\ file' = res.file
           /\ fc' = res.fc
           /\ ret' = res.ret
           /\ phase' = NextPhase(p4est.mpisize, res.ret, "write")
           /\ last' = [op |-> "open_create", fault |-> fault]
  /\ UNCHANGED <<df, damage, mpiio, p4est, wlog, aux, rd, pi>>

Section(type, size, user_string, payload) ==
  [type |-> type, size |-> size, user_string |-> user_string,
   payload |-> payload]

WriteHeader ==
  /\ phase = "write"
  /\ Len(wlog) < MaxSections
  /\ \E in \in HeaderInputs, fault \in WriteHeaderFaults(mpiio),
        mpiret \in BackendErrors :
       \E eager \in EagerChoices(fault, {"data", "pad"}) :
         \E P \in {p4est.mpisize}, data \in {HeaderBlob(in.size)} :
         \E res \in {p4est_file_write_header(fc, file, P, mpiio, in.size,
                                            data, in.user_string, fault,
                                            mpiret, eager)} :
         \E ok \in {AllRet(P, res.ret, "fc")} :
             /\ file' = res.file
             /\ fc' = res.fc
             /\ ret' = res.ret
             /\ phase' = NextPhase(P, res.ret, "write")
             /\ wlog' = IF ok /\ in.size > 0
                        THEN Append(wlog, Section(CharH, in.size,
                                                  in.user_string, data))
                        ELSE wlog
             /\ last' = [op |-> "write_header", size |-> in.size,
                         has_data |-> TRUE, fault |-> fault,
                         at |-> fc[0].accessed_bytes, k |-> Len(wlog)]
             /\ aux' = [unmatched |-> res.unmatched,
                        overflow |-> res.overflow, ranges |-> <<>>,
                        writes |-> res.writes]
  /\ UNCHANGED <<df, damage, mpiio, p4est, rd, pi>>

WriteField ==
  /\ phase = "write"
  /\ Len(wlog) < MaxSections
  /\ \E in \in FieldInputs, mpiret \in BackendErrors :
       \E P \in {p4est.mpisize} :
       \E bufs \in {[r \in Ranks(P) |->
                       LocalArray(fc[r].gfq, r, in.elem_size)]} :
           \E fault \in WriteFieldFaults(mpiio, P, bufs) :
           \E eager \in EagerChoices(fault, {"pad"}) :
             \E res \in {p4est_file_write_field(fc, file, P, mpiio,
                                                in.elem_size, bufs,
                                                in.user_string, fault,
                                                mpiret, eager)} :
             \E ok \in {AllRet(P, res.ret, "fc")} :
                 /\ file' = res.file
                 /\ fc' = res.fc
                 /\ ret' = res.ret
                 /\ phase' = NextPhase(P, res.ret, "write")
                 /\ wlog' = IF ok /\ in.elem_size > 0
                            THEN Append(wlog,
                                        Section(CharF, in.elem_size,
                                                in.user_string,
                                                ConcatRanks(bufs, P)))
                            ELSE wlog
                 /\ last' = [op |-> "write_field", size |-> in.elem_size,
                             has_data |-> TRUE, fault |-> fault,
                             at |-> fc[0].accessed_bytes,
                             k |-> Len(wlog)]
                 /\ aux' = [unmatched |-> res.unmatched,
                            overflow |-> res.overflow,
                            ranges |-> res.ranges,
                            writes |-> res.writes]
  /\ UNCHANGED <<df, damage, mpiio, p4est, rd, pi>>

Close ==
  /\ phase \in {"write", "read"}
  /\ \E fault \in {NoFault, Fault("close", "err", {})},
        mpiret \in BackendErrors :
       \E res \in {p4est_file_close(fc, p4est.mpisize, fault, mpiret)} :
           /\ fc' = res.fc
           /\ ret' = res.ret
           /\ phase' = IF fault # NoFault THEN "dead"
                       ELSE IF phase = "write" THEN "closed" ELSE "end"
           /\ last' = [op |-> "close", fault |-> fault]
  /\ UNCHANGED <<df, damage, mpiio, p4est, file, wlog, aux, rd, pi>>

(***************************************************************************)
(* The reader                                                              *)
(***************************************************************************)
\* A program with its own forest opens the closed file.
OpenRead ==
  /\ phase = "closed"
  /\ \E forest \in AllForests,
        oob \in OobChoices(p4est.global_num_quadrants),
        fault \in {NoFault, Fault("open", "err", {}),
                   Fault("close", "err", {})} \cup StepFaults({"meta"}),
        mpiret \in BackendErrors :
       \E res \in {p4est_file_open_read(forest, file, fault, mpiret,
                                        oob)} :
           /\ p4est' = forest
           /\ fc' = res.fc
           /\ ret' = res.ret
           /\ phase' = NextPhase(forest.mpisize, res.ret, "read")
           /\ last' = [op |-> "open_read", fault |-> fault, oob |-> oob]
           /\ rd' = [k |-> 0, skipped |-> FALSE,
                     written |-> p4est.global_num_quadrants]
           /\ aux' = NoAux
  /\ UNCHANGED <<df, damage, mpiio, file, wlog, pi>>

\* A read call that leaves every rank with a usable context: fc returned,
\* or NULL with success from a skip.
Usable(P, fcs) == \A r \in Ranks(P) : fcs[r].st = "live" /\ fcs[r].file = "open"

ReadPhase(P, res) ==
  IF Usable(P, res.fc)
       /\ \A r \in Ranks(P) : res.ret[r].val \in {"fc", "NULL"}
  THEN "read" ELSE "dead"

ReadHeader ==
  /\ phase = "read"
  /\ \E in \in ReadHeaderInputs, mpiret \in BackendErrors :
     \E fault \in ReadHeaderFaults(mpiio, in) :
       \E P \in {p4est.mpisize} :
       \E res \in {p4est_file_read_header(fc, file, P, mpiio, in.size,
                                          in.has_data, fault, mpiret)} :
           /\ fc' = res.fc
           /\ ret' = res.ret
           /\ phase' = ReadPhase(P, res)
           /\ last' = [op |-> "read_header", size |-> in.size,
                       has_data |-> in.has_data, fault |-> fault,
                       at |-> fc[0].accessed_bytes, k |-> rd.k]
           /\ rd' = [rd EXCEPT
                       !.k = IF ReadPhase(P, res) = "read" THEN @ + 1 ELSE @,
                       !.skipped = @ \/ ~AllRet(P, res.ret, "fc")]
           /\ aux' = NoAux
  /\ UNCHANGED <<df, damage, mpiio, p4est, file, wlog, pi>>

ReadField ==
  /\ phase = "read"
  /\ \E in \in ReadFieldInputs, mpiret \in BackendErrors, eager \in BOOLEAN,
        stale \in StaleReads :
     \E fault \in ReadFieldFaults(mpiio, p4est.mpisize, fc[0].gfq, in) :
       \E P \in {p4est.mpisize} :
       \E res \in {p4est_file_read_field(fc, file, P, mpiio, in.elem_size,
                                         in.has_data, fault, mpiret,
                                         eager, stale)} :
           /\ (~eager => res.early \notin {{}, Ranks(P)})
           /\ (res.freed = {} => stale = "same")
           /\ fc' = res.fc
           /\ ret' = res.ret
           /\ phase' = ReadPhase(P, res)
           /\ last' = [op |-> "read_field", size |-> in.elem_size,
                       has_data |-> in.has_data, fault |-> fault,
                       at |-> fc[0].accessed_bytes, k |-> rd.k]
           /\ rd' = [rd EXCEPT
                       !.k = IF ReadPhase(P, res) = "read" THEN @ + 1 ELSE @,
                       !.skipped = @ \/ ~AllRet(P, res.ret, "fc")]
           /\ aux' = ReadAux(res.early, res.freed, res.stale)
  /\ UNCHANGED <<df, damage, mpiio, p4est, file, wlog, pi>>

(***************************************************************************)
(* p4est_file_info on the closed file                                      *)
(***************************************************************************)
InfoFaults ==
  {NoFault, Fault("open", "err", {}), Fault("close", "err", {})}
    \cup StepFaults({"file", "meta", "pad"})

Info ==
  /\ phase = "closed"
  /\ \E fault \in InfoFaults, mpiret \in BackendErrors, eager \in BOOLEAN,
        oobs \in [Ranks(p4est.mpisize) ->
                    OobChoices(p4est.global_num_quadrants)] :
       \E res \in {p4est_file_info(p4est, file, mpiio, fault, mpiret,
                                    oobs, eager)} :
           /\ (~eager => \E r \in Ranks(p4est.mpisize) : oobs[r] # oobs[0])
           /\ ret' = res
           /\ phase' = "info"
           /\ last' = [op |-> "info", fault |-> fault, oobs |-> oobs]
  /\ UNCHANGED <<df, damage, mpiio, p4est, file, fc, wlog, aux, rd, pi>>

Next ==
  \/ OpenCreate \/ WriteHeader \/ WriteField \/ Close
  \/ OpenRead \/ ReadHeader \/ ReadField \/ Info

Spec == Init /\ [][Next]_vars

(***************************************************************************)
(* Two programs write the same sections under their own partitions         *)
(***************************************************************************)
\* One run: its forest, its file and its contexts; ranges holds the byte
\* ranges the ranks wrote in the last write_field.
Run(forest, f, fcs, ranges) ==
  [p4est |-> forest, file |-> f, fc |-> fcs, ranges |-> ranges]

Created(forest) ==
  LET res == p4est_file_open_create(forest, StrGreet, NoFault, 0, "valid")
  IN  Run(forest, res.file, res.fc, <<>>)

HeaderWritten(run, in) ==
  LET res == p4est_file_write_header(run.fc, run.file, run.p4est.mpisize,
                                     mpiio, in.size, HeaderBlob(in.size),
                                     in.user_string, NoFault, 0, TRUE)
  IN  Run(run.p4est, res.file, res.fc, <<>>)

FieldWritten(run, in) ==
  LET P == run.p4est.mpisize
      bufs == [r \in Ranks(P) |->
                 LocalArray(run.fc[r].gfq, r, in.elem_size)]
      res == p4est_file_write_field(run.fc, run.file, P, mpiio,
                                    in.elem_size, bufs, in.user_string,
                                    NoFault, 0, TRUE)
  IN  Run(run.p4est, res.file, res.fc, res.ranges)

Closed(run) ==
  Run(run.p4est, run.file,
      p4est_file_close(run.fc, run.p4est.mpisize, NoFault, 0).fc,
      run.ranges)

InitPI ==
  /\ mpiio \in BOOLEAN
  /\ p4est = Forest(0, 1, <<0, 0>>)
  /\ file = <<>>
  /\ fc = [r \in Ranks(1) |-> NoCtx]
  /\ ret = [r \in Ranks(1) |-> NoRet]
  /\ phase = "start"
  /\ wlog = <<>>
  /\ last = NoLast
  /\ aux = NoAux
  /\ rd = NoRd
  /\ pi = [st |-> "start"]
  /\ damage = NoDamage
  /\ df = NoDeflate

PICreate ==
  /\ pi.st = "start"
  /\ \E N \in 0 .. MaxQuads :
       \E fa \in ForestsOf(N), fb \in ForestsOf(N) :
         pi' = [st |-> "write", a |-> Created(fa), b |-> Created(fb),
                n |-> 0, field |-> [size |-> 0, at |-> 0]]
  /\ UNCHANGED <<df, damage, mpiio, p4est, file, fc, ret, phase, wlog, last, aux, rd>>

PIWriteHeader ==
  /\ pi.st = "write"
  /\ pi.n < MaxSections
  /\ \E in \in HeaderInputs :
       pi' = [pi EXCEPT !.a = HeaderWritten(@, in),
                        !.b = HeaderWritten(@, in),
                        !.n = IF in.size > 0 THEN @ + 1 ELSE @,
                        !.field = [size |-> 0, at |-> 0]]
  /\ UNCHANGED <<df, damage, mpiio, p4est, file, fc, ret, phase, wlog, last, aux, rd>>

PIWriteField ==
  /\ pi.st = "write"
  /\ pi.n < MaxSections
  /\ \E in \in FieldInputs :
       pi' = [pi EXCEPT !.a = FieldWritten(@, in),
                        !.b = FieldWritten(@, in),
                        !.n = IF in.elem_size > 0 THEN @ + 1 ELSE @,
                        !.field = [size |-> in.elem_size,
                                   at |-> pi.a.fc[0].accessed_bytes]]
  /\ UNCHANGED <<df, damage, mpiio, p4est, file, fc, ret, phase, wlog, last, aux, rd>>

PIClose ==
  /\ pi.st = "write"
  /\ pi' = [pi EXCEPT !.st = "closed", !.a = Closed(@), !.b = Closed(@)]
  /\ UNCHANGED <<df, damage, mpiio, p4est, file, fc, ret, phase, wlog, last, aux, rd>>

NextPI == PICreate \/ PIWriteHeader \/ PIWriteField \/ PIClose

SpecPI == InitPI /\ [][NextPI]_vars

(***************************************************************************)
(* Properties                                                              *)
(***************************************************************************)
\* The payload length L of a section in a file of N quadrants, and the
\* bytes the section takes: 64 + L + pad_len(L).
PayloadLen(sec, N) ==
  IF sec.type = CharF THEN N * sec.size ELSE sec.size

SectionBytes(sec, N) ==
  P4EST_NUM_FIELD_HEADER_BYTES + PayloadLen(sec, N)
    + NumPadBytes(PayloadLen(sec, N), P4EST_BYTE_DIV)

RECURSIVE SumSections(_, _, _)
SumSections(log, k, N) ==
  IF k = 0 THEN 0
  ELSE SumSections(log, k - 1, N) + SectionBytes(log[k], N)

RanksNow == Ranks(p4est.mpisize)

SectionOp == last.op \in {"write_header", "write_field",
                          "read_header", "read_field"}

\* The last call was made with the cursor on section last.k + 1 of the
\* sections written, and the file holds that section as it was written.
OnSection ==
  /\ last.k < Len(wlog)
  /\ last.at = SumSections(wlog, last.k, p4est.global_num_quadrants)
  /\ damage = NoDamage \/ last.k + 1 < Len(wlog)

CurrentSection == wlog[last.k + 1]

\* C1: after k successful non-skipping section operations, writes on a
\* write context or reads that replay the written sections on a read
\* context, accessed_bytes is the sum over the k sections of
\* 64 + L + pad_len(L), on every rank.
C1_CursorInvariant ==
  /\ phase = "write" =>
       \A r \in RanksNow :
         fc[r].accessed_bytes
           = SumSections(wlog, Len(wlog), p4est.global_num_quadrants)
  /\ (phase = "read" /\ ~rd.skipped) =>
       /\ rd.k <= Len(wlog)
       /\ \A r \in RanksNow :
            fc[r].accessed_bytes
              = SumSections(wlog, rd.k, p4est.global_num_quadrants)

C1_Witness ==
  /\ phase = "read" /\ ~rd.skipped /\ rd.k = 2
  /\ p4est.mpisize = 2
  /\ wlog[1].type = CharH /\ wlog[2].type = CharF
  /\ fc[1].accessed_bytes = 80 + 96

\* C2: after open_create and after each successful write_header or
\* write_field the file size is 80 + accessed_bytes.
C2_FileSize ==
  phase = "write" => Len(file) = Prelude + fc[0].accessed_bytes

C2_Witness ==
  /\ phase = "write"
  /\ Len(wlog) = 1 /\ wlog[1].type = CharH /\ wlog[1].size = 5
  /\ Len(file) = 160

\* C3: a read_field with a buffer and the stored element size s > 0 on a
\* section written by write_field leaves on every reading rank r the
\* records gfq_r[r] .. gfq_r[r+1] - 1 of the concatenation of the writers'
\* arrays in rank order, whatever the partitions of writer and reader.
C3_FieldRoundTrip ==
  (/\ last.op = "read_field" /\ last.has_data /\ last.size > 0
   /\ OnSection
   /\ CurrentSection.type = CharF /\ CurrentSection.size = last.size
   /\ \A r \in RanksNow : ret[r].val = "fc")
  => \A r \in RanksNow :
       ret[r].data
         = SubSeq(CurrentSection.payload,
                  p4est.global_first_quadrant[r + 1] * last.size + 1,
                  p4est.global_first_quadrant[r + 2] * last.size)

C3_Witness ==
  /\ last.op = "read_field" /\ last.size = 8 /\ OnSection
  /\ p4est.global_first_quadrant = <<0, 1, 2>>
  /\ \A r \in RanksNow : ret[r].val = "fc" /\ Len(ret[r].data) = 8
  /\ ret[0].data # ret[1].data

\* C6: a read_header with a buffer and header_size = n > 0 on a header
\* section of n bytes succeeds when no I/O call fails and leaves on every
\* rank the written blob and the written user string, padded with spaces
\* to 47 characters and followed by a NUL.
C6_HeaderRoundTrip ==
  (/\ last.op = "read_header" /\ last.has_data /\ last.size > 0
   /\ last.fault = NoFault
   /\ OnSection
   /\ CurrentSection.type = CharH /\ CurrentSection.size = last.size)
  => \A r \in RanksNow :
       /\ ret[r].val = "fc"
       /\ ret[r].data = CurrentSection.payload
       /\ ret[r].user_string
            = FmtLeft(CurrentSection.user_string, 47) \o <<NUL>>

C6_Witness ==
  /\ last.op = "read_header" /\ last.size = 5 /\ last.fault = NoFault
  /\ OnSection /\ last.k = 1
  /\ p4est.mpisize = 2
  /\ ret[1].val = "fc" /\ ret[1].data = StrHello

\* The entries info should list for the sections written.
WrittenSections ==
  [i \in 1 .. Len(wlog) |->
     SectionMetadata(wlog[i].type, wlog[i].size,
                     FmtLeft(wlog[i].user_string, 47) \o <<NUL>>)]

\* C5: info on a file that was created, written and closed returns 0 and
\* lists, on every rank, one entry per write of non-zero size with its
\* block type, data size and space-padded user string.
C5_InfoReplay ==
  (phase = "info" /\ last.fault = NoFault)
  => \A r \in RanksNow :
       ret[r].val = "0" /\ ret[r].data = WrittenSections

\* Info without any I/O fault fails on the file header.
C5_Witness ==
  /\ phase = "info" /\ last.fault = NoFault
  /\ Len(wlog) = 1
  /\ \A r \in RanksNow :
       ret[r].val = "-1" /\ ret[r].errcode = P4EST_ERR_IO

\* C7: a section operation ends with every rank holding the context and
\* the same advanced cursor, or with every rank holding NULL, whatever
\* rank-0-local I/O step fails.
C7_OutcomeAgreement ==
  SectionOp =>
    \/ \A r \in RanksNow :
         /\ ret[r].val = "fc"
         /\ fc[r].accessed_bytes = fc[0].accessed_bytes
    \/ \A r \in RanksNow : ret[r].val = "NULL"

\* Rank 0 returned NULL from write_header while rank 1 advanced.
C7_Witness ==
  /\ last.op = "write_header" /\ last.fault.step = "pad"
  /\ p4est.mpisize = 2
  /\ ret[0].val = "NULL" /\ fc[0].st = "freed"
  /\ ret[1].val = "fc" /\ fc[1].accessed_bytes > last.at

\* The collective transfer of the last call was reached and came back short
\* on some rank.
CollectiveShort ==
  /\ last.op \in {"write_field", "read_field"}
  /\ last.has_data /\ last.size > 0
  /\ last.fault.step = "coll" /\ last.fault.kind = "short"
  /\ last.op = "read_field" =>
       /\ OnSection
       /\ CurrentSection.type = CharF /\ CurrentSection.size = last.size
       /\ aux.early = {}

\* C8: when the collective transfer of a field comes back short on some
\* rank, every rank returns NULL with the count error and a freed context.
C8_CountErrorEverywhere ==
  CollectiveShort =>
    \A r \in RanksNow :
      /\ ret[r].val = "NULL"
      /\ ret[r].errcode = P4EST_FILE_COUNT_ERROR
      /\ fc[r].st = "freed"

\* A rank whose own count was right returned NULL with success.
C8_Witness ==
  /\ CollectiveShort /\ last.op = "read_field"
  /\ p4est.mpisize = 2 /\ last.fault.who = {0}
  /\ ret[0].errcode = P4EST_FILE_COUNT_ERROR
  /\ ret[1].val = "NULL" /\ ret[1].errcode = sc_MPI_SUCCESS

\* The documented calls that return NULL with success: the skipping and
\* the zero-size reads.
SkipCall ==
  /\ last.op \in {"read_header", "read_field"}
  /\ ~last.has_data \/ last.size = 0

\* C9: a NULL from write_header, read_header, write_field or read_field
\* comes with a non-zero errcode on that rank, except from a skipping or
\* zero-size read.
C9_NullHasErrcode ==
  (SectionOp /\ ~SkipCall) =>
    \A r \in RanksNow :
      ret[r].val = "NULL" => ret[r].errcode # sc_MPI_SUCCESS

\* write_field returned NULL with success on the rank whose count was
\* right.
C9_Witness ==
  /\ last.op = "write_field" /\ last.size > 0
  /\ p4est.mpisize = 2
  /\ ret[0].val = "NULL" /\ ret[0].errcode = P4EST_FILE_COUNT_ERROR
  /\ ret[1].val = "NULL" /\ ret[1].errcode = sc_MPI_SUCCESS
  /\ fc[1].st = "freed"

\* The last call read with a buffer and a size that differs from the size
\* stored in the section under the cursor, and no I/O call failed.
SizeMismatch ==
  /\ last.op \in {"read_header", "read_field"}
  /\ last.has_data
  /\ last.op = "read_field" => last.size # 0
  /\ last.fault = NoFault
  /\ OnSection
  /\ CurrentSection.type = (IF last.op = "read_field" THEN CharF ELSE CharH)
  /\ CurrentSection.size # last.size

\* C10: a read with a buffer and a size that differs from the stored size
\* ends on every rank with NULL and ERR_IO, the file closed, the context
\* freed and no payload delivered.
C10_SizeMismatchIsErrIO ==
  SizeMismatch =>
    \A r \in RanksNow :
      /\ ret[r].val = "NULL"
      /\ ret[r].errcode = P4EST_ERR_IO
      /\ fc[r].st = "freed" /\ fc[r].file = "closed"
      /\ ret[r].data = <<>>

\* read_field with a larger element size than stored returned NULL with
\* success.
C10_Witness ==
  /\ SizeMismatch /\ last.op = "read_field"
  /\ \A r \in RanksNow :
       ret[r].val = "NULL" /\ ret[r].errcode = sc_MPI_SUCCESS

\* The byte ranges the ranks of a run wrote in its last write_field lie in
\* the payload of the section, and every payload byte lies in exactly one.
RangesPartitionPayload(run, field) ==
  LET P == run.p4est.mpisize
      lo == Prelude + field.at + P4EST_NUM_FIELD_HEADER_BYTES
      hi == lo + run.p4est.global_num_quadrants * field.size
  IN  /\ \A r \in Ranks(P) :
           run.ranges[r].lo <= run.ranges[r].hi
             /\ (run.ranges[r].lo < run.ranges[r].hi =>
                   lo <= run.ranges[r].lo /\ run.ranges[r].hi <= hi)
      /\ \A x \in lo .. (hi - 1) :
           \E r \in Ranks(P) :
             /\ run.ranges[r].lo <= x /\ x < run.ranges[r].hi
             /\ \A q \in Ranks(P) \ {r} :
                  ~(run.ranges[q].lo <= x /\ x < run.ranges[q].hi)

\* C4: two runs that write the same sections with the same records per
\* quadrant under different process counts and partitions produce the same
\* file, and in a field write the ranks' byte ranges are pairwise disjoint
\* and cover exactly the N * s payload bytes.
C4_PartitionIndependence ==
  pi.st \in {"write", "closed"} =>
    /\ pi.a.file = pi.b.file
    /\ pi.field.size > 0 =>
         /\ RangesPartitionPayload(pi.a, pi.field)
         /\ RangesPartitionPayload(pi.b, pi.field)

C4_Witness ==
  /\ pi.st = "closed" /\ pi.n = 2
  /\ pi.field.size = 8 /\ pi.field.at = 80
  /\ pi.a.p4est.mpisize = 1
  /\ pi.b.p4est.global_first_quadrant = <<0, 1, 2>>
  /\ pi.a.file = pi.b.file /\ Len(pi.b.file) = 80 + 80 + 96
  /\ pi.b.ranges[1].hi - pi.b.ranges[1].lo = 8

(***************************************************************************)
(* Error handling of the readers                                           *)
(***************************************************************************)
\* The block type a read call expects under the cursor.
ExpectedType == IF last.op = "read_field" THEN CharF ELSE CharH

\* The last call was a read_header or read_field, reading or skipping, on
\* a section of the other type, and no I/O call failed.
TypeMismatch ==
  /\ last.op \in {"read_header", "read_field"}
  /\ last.fault = NoFault
  /\ OnSection
  /\ CurrentSection.type # ExpectedType

\* Every rank got NULL with ERR_IO, the file is closed and the context
\* freed.
FailedWithErrIO ==
  \A r \in RanksNow :
    /\ ret[r].val = "NULL" /\ ret[r].errcode = P4EST_ERR_IO
    /\ fc[r].st = "freed" /\ fc[r].file = "closed"

\* C11: read_header on a section that is not of type H, and read_field on
\* a section that is not of type F, reading or skipping, returns NULL with
\* ERR_IO on every rank, with the file closed and the context freed.
C11_BlockTypeCheck == TypeMismatch => FailedWithErrIO

\* read_field with a buffer on a header section left through the file size
\* check of the MPI I/O build: NULL with success.
C11_Witness ==
  /\ TypeMismatch /\ last.op = "read_field" /\ last.has_data
  /\ mpiio
  /\ \A r \in RanksNow :
       ret[r].val = "NULL" /\ ret[r].errcode = sc_MPI_SUCCESS

\* When no rank leaves through the file size check and the read of the
\* released context in read_field does not fault, the type check answers.
TypeCheckAnswers ==
  (TypeMismatch
     /\ (last.op = "read_field" => aux.early = {} /\ aux.stale # "fault"))
    => FailedWithErrIO

ZeroSizeRead ==
  /\ last.op \in {"read_header", "read_field"}
  /\ last.size = 0
  /\ last.op = "read_field" => last.has_data
  /\ last.fault = NoFault

\* C13: a read_header with header_size = 0 and a read_field with an array
\* of element size 0 succeed and leave the context as it was: alive, with
\* accessed_bytes where it was before the call.
C13_ZeroSizeReadNoOp ==
  ZeroSizeRead =>
    \A r \in RanksNow :
      /\ ret[r].errcode = sc_MPI_SUCCESS
      /\ fc[r].st = "live"
      /\ fc[r].accessed_bytes = last.at

\* A read_field with an array of element size 0 on a field section moved
\* the cursor of both ranks over the section.
C13_Witness ==
  /\ ZeroSizeRead /\ last.op = "read_field"
  /\ OnSection /\ CurrentSection.type = CharF /\ CurrentSection.size = 8
  /\ p4est.mpisize = 2
  /\ \A r \in RanksNow :
       /\ ret[r].val = "NULL" /\ ret[r].errcode = sc_MPI_SUCCESS
       /\ fc[r].accessed_bytes
            = last.at + SectionBytes(CurrentSection,
                                     p4est.global_num_quadrants)

(***************************************************************************)
(* A file whose last section is truncated or malformed                     *)
(***************************************************************************)
\* What can be wrong with the last section of a file: the file ends in the
\* middle of the section header, in the payload or in the padding; the type
\* byte is unknown; one of the two newlines of the section header is
\* missing; the first or the last padding byte is not a newline.
DamageKinds ==
  {"cut_header", "cut_payload", "cut_padding", "bad_type", "bad_nl1",
   "bad_nl2", "bad_pad_first", "bad_pad_last"}

\* The file f whose last section starts at byte offset base and holds L
\* payload bytes, after damage kind.
DamagedFile(f, base, L, kind) ==
  LET data == base + P4EST_NUM_FIELD_HEADER_BYTES
      pad == data + L
  IN  CASE kind = "cut_header" -> Take(f, base + 32)
        [] kind = "cut_payload" -> Take(f, pad - 1)
        [] kind = "cut_padding" -> Take(f, Len(f) - 1)
        [] kind = "bad_type" -> SetAt(f, base, 88)  \* 'X'
        [] kind = "bad_nl1" ->
             SetAt(f, base + P4EST_NUM_ARRAY_METADATA_BYTES + 1, SP)
        [] kind = "bad_nl2" ->
             SetAt(f, base + P4EST_NUM_FIELD_HEADER_BYTES - 1, SP)
        [] kind = "bad_pad_first" -> SetAt(f, pad, SP)
        [] kind = "bad_pad_last" -> SetAt(f, Len(f) - 1, SP)

\* The closed file is damaged in its last section before anyone reads it.
Damage ==
  /\ phase = "closed"
  /\ damage = NoDamage
  /\ Len(wlog) > 0
  /\ \E kind \in DamageKinds :
       \E N \in {p4est.global_num_quadrants} :
       \E L \in {PayloadLen(wlog[Len(wlog)], N)} :
         /\ (kind = "cut_payload" => L > 0)
         /\ file' = DamagedFile(file,
                                Prelude + SumSections(wlog, Len(wlog) - 1, N),
                                L, kind)
         /\ damage' = [kind |-> kind]
  /\ UNCHANGED <<df, mpiio, p4est, fc, ret, phase, wlog, last, aux, rd, pi>>

\* The writer of the damaged files: the largest forest in the uniform
\* partition over the largest number of ranks.
\* The ways the first 64 bytes of the file are damaged: a wrong magic
\* string, and no newline behind the magic or behind the version string.
HeaderDamageKinds == {"bad_magic", "bad_magic_nl", "bad_version_nl"}

DamagedHeader(f, kind) ==
  CASE kind = "bad_magic" -> SetAt(f, 0, 88)  \* 'X'
    [] kind = "bad_magic_nl" -> SetAt(f, P4EST_NUM_MAGIC_BYTES - 1, SP)
    [] kind = "bad_version_nl" ->
         SetAt(f, P4EST_NUM_MAGIC_BYTES + P4EST_NUM_VERSION_STR_BYTES - 1, SP)

\* Somebody damages the header of the closed file.
DamageHeader ==
  /\ phase = "closed" /\ damage = NoDamage
  /\ \E kind \in HeaderDamageKinds :
       /\ file' = DamagedHeader(file, kind)
       /\ damage' = [kind |-> kind]
  /\ UNCHANGED <<df, mpiio, p4est, fc, ret, phase, wlog, last, aux, rd, pi>>

TailForests ==
  {Forest(MaxQuads, MaxProcs,
          p4est_comm_global_first_quadrant(MaxQuads, MaxProcs))}

InitTail == Init /\ p4est \in TailForests

\* The damaged file is read by a program with the forest that wrote it.
NextTail ==
  \/ OpenCreate \/ WriteHeader \/ WriteField \/ Close \/ Damage
  \/ DamageHeader
  \/ (damage # NoDamage /\ OpenRead /\ p4est' = p4est)
  \/ ReadHeader \/ ReadField
  \/ (damage # NoDamage /\ Info)

SpecTail == InitTail /\ [][NextTail]_vars

\* The last call was a read, with a buffer and the type and size that were
\* written, of the damaged last section of the file, and no I/O call
\* failed.
ReadOfDamagedSection ==
  /\ damage # NoDamage
  /\ last.op \in {"read_header", "read_field"}
  /\ last.has_data /\ last.size > 0
  /\ last.fault = NoFault
  /\ last.k + 1 = Len(wlog)
  /\ last.at = SumSections(wlog, last.k, p4est.global_num_quadrants)
  /\ wlog[Len(wlog)].type = ExpectedType
  /\ wlog[Len(wlog)].size = last.size

\* The last call was such a read of a section in front of the damaged one.
ReadBeforeDamagedSection ==
  /\ damage # NoDamage
  /\ last.op \in {"read_header", "read_field"}
  /\ last.has_data /\ last.size > 0
  /\ last.fault = NoFault
  /\ OnSection
  /\ CurrentSection.type = ExpectedType
  /\ CurrentSection.size = last.size

\* The bytes of the current section that rank r is to get.
ExpectedData(r) ==
  IF last.op = "read_header" THEN CurrentSection.payload
  ELSE SubSeq(CurrentSection.payload,
              p4est.global_first_quadrant[r + 1] * last.size + 1,
              p4est.global_first_quadrant[r + 2] * last.size)

\* C14: a read of the truncated or malformed last section of a file fails
\* with ERR_IO on every rank, and the reads of the sections in front of it
\* succeed with their data.
C14_DamagedTailRead ==
  /\ ReadOfDamagedSection =>
       \A r \in RanksNow :
         ret[r].val = "NULL" /\ ret[r].errcode = P4EST_ERR_IO
  /\ ReadBeforeDamagedSection =>
       \A r \in RanksNow :
         ret[r].val = "fc" /\ ret[r].data = ExpectedData(r)

\* The file ends in the middle of the second section's header; the first
\* section was read, the read of the second ends with the count error on
\* rank 0.
C14_Witness ==
  /\ ReadOfDamagedSection /\ damage.kind = "cut_header"
  /\ last.op = "read_header" /\ last.k = 1
  /\ ret[0].val = "NULL" /\ ret[0].errcode = P4EST_FILE_COUNT_ERROR
  /\ ret[1].val = "NULL"
  /\ fc[0].st = "freed" /\ fc[1].st = "freed"

\* The part of C14 that holds: damage that leaves all bytes of the section
\* in the file is answered with ERR_IO unless a rank left through the file
\* size check or the read of the released context in read_field faults,
\* and the sections in front are read.
MalformedTailRead ==
  /\ (/\ ReadOfDamagedSection
      /\ damage.kind \in {"bad_type", "bad_nl1", "bad_nl2",
                          "bad_pad_first", "bad_pad_last"}
      /\ (last.op = "read_field" => aux.early = {} /\ aux.stale # "fault"))
     => \A r \in RanksNow :
          ret[r].val = "NULL" /\ ret[r].errcode = P4EST_ERR_IO
  /\ ReadBeforeDamagedSection =>
       \A r \in RanksNow :
         ret[r].val = "fc" /\ ret[r].data = ExpectedData(r)


(***************************************************************************)
(* C15: info on a file with a damaged last section                         *)
(***************************************************************************)
\* Info ran without an I/O fault on a file whose last section was damaged.
InfoOfDamagedFile ==
  phase = "info" /\ damage.kind \in DamageKinds /\ last.fault = NoFault

\* The entries of the sections before the damaged one.
PrecedingSections == SubSeq(WrittenSections, 1, Len(wlog) - 1)

\* C15: info on a file of m well-formed sections followed by a truncated
\* or malformed section returns 0 on every rank and lists exactly the m
\* preceding sections.
C15_InfoToleratesBadTail ==
  InfoOfDamagedFile
  => \A r \in RanksNow :
       ret[r].val = "0" /\ ret[r].data = PrecedingSections

\* The padding of the last section is read without a look at the number of
\* bytes read, so that behind a short read the last byte examined is a byte
\* of the section header.
StaleNewline ==
  /\ damage.kind = "cut_padding"
  /\ wlog[Len(wlog)].size % P4EST_BYTE_DIV = P4EST_BYTE_DIV - 1
  /\ wlog[Len(wlog)].type = CharH
  /\ wlog[Len(wlog)].user_string = StrNewline

\* Info on a file whose second section lost its last padding byte lists
\* both sections.
C15_Witness ==
  /\ InfoOfDamagedFile /\ StaleNewline /\ Len(wlog) = 2
  /\ \A r \in RanksNow : ret[r].val = "0" /\ ret[r].data = WrittenSections

\* The part of C15 the code keeps: once every rank accepts the file header,
\* the scan of rank 0 drops the damaged section and every rank returns the
\* preceding entries, unless the missing padding byte is made up for by a
\* newline left in the buffer.
InfoDropsBadTail ==
  (InfoOfDamagedFile /\ ~StaleNewline /\ \A r \in RanksNow : ret[r].val = "0")
  => \A r \in RanksNow : ret[r].data = PrecedingSections


(***************************************************************************)
(* C16: an error ends the life of the context                              *)
(***************************************************************************)
\* The last operation on the open context reported an error on some rank:
\* it set *errcode to something other than success.
OpReportedError ==
  /\ last.op \in {"write_header", "write_field", "read_header",
                  "read_field", "close"}
  /\ \E r \in RanksNow : ret[r].errcode # sc_MPI_SUCCESS

\* On rank r the file is closed and the context memory released.
Released(r) == fc[r].st = "freed" /\ fc[r].file = "closed"

\* C16: whenever an operation on an open context reports an error, on
\* every rank the file handle has been closed and the context memory
\* released, so that no open file and no live context remains.
C16_ErrorReleasesContext ==
  OpReportedError => \A r \in RanksNow : Released(r)

\* A close that fails returns -1 on every rank and leaves every context
\* allocated.
C16_Witness ==
  /\ last.op = "close" /\ last.fault.kind = "err"
  /\ \A r \in RanksNow :
       /\ ret[r].val = "-1" /\ ret[r].errcode # sc_MPI_SUCCESS
       /\ fc[r].st = "live" /\ fc[r].file = "open"

\* The part of C16 the code keeps: a rank to which a section operation
\* returns NULL has closed its file and released its context.
NullMeansReleased ==
  SectionOp
  => \A r \in RanksNow :
       (ret[r].val = "NULL" /\ ret[r].errcode # sc_MPI_SUCCESS) => Released(r)


(***************************************************************************)
(* C17: ownership of the partition map                                     *)
(***************************************************************************)
\* C17: a partition map owned by the context is allocated as long as the
\* context lives and freed when the context is released; a borrowed one
\* is never freed by the context.
C17_PartitionMapOwnership ==
  \A r \in RanksNow :
    /\ (fc[r].st = "live" /\ fc[r].gfq_owned = 1) => fc[r].gfq_mem = "alloc"
    /\ (fc[r].st = "freed" /\ fc[r].gfq_owned = 1) => fc[r].gfq_mem = "freed"
    /\ fc[r].gfq_owned = 0 => fc[r].gfq_mem = "none"

\* A write that fails releases the context of a writer but not the
\* partition map the context owns.
C17_Witness ==
  /\ last.op \in {"write_header", "write_field"}
  /\ \A r \in RanksNow :
       /\ ret[r].val = "NULL" /\ fc[r].st = "freed"
       /\ fc[r].gfq_owned = 1 /\ fc[r].gfq_mem = "leaked"

\* The part of C17 the code keeps: p4est_file_close without an error
\* frees an owned partition map with the context and no borrowed one.
CloseFreesOwnedMap ==
  (last.op = "close" /\ last.fault = NoFault)
  => \A r \in RanksNow :
       /\ fc[r].st = "freed"
       /\ fc[r].gfq_mem = IF fc[r].gfq_owned = 1 THEN "freed" ELSE "none"


(***************************************************************************)
(* C18: open_read with a forest of another size                            *)
(***************************************************************************)
\* open_read ran without an I/O fault on a file whose header every rank
\* accepts, with a forest whose number of quadrants is not the stored one.
OpenReadMismatch ==
  /\ last.op = "open_read" /\ last.fault = NoFault
  /\ last.oob = OobHeaderTail(rd.written)
  /\ p4est.global_num_quadrants # rd.written

\* C18: open_read with a forest whose global_num_quadrants differs from
\* the count stored in a valid file header returns NULL with an error code
\* other than success on every rank and leaves no context and no open file.
C18_OpenReadMismatch ==
  OpenReadMismatch
  => \A r \in RanksNow :
       /\ ret[r].val = "NULL" /\ ret[r].errcode # sc_MPI_SUCCESS
       /\ fc[r].st = "freed" /\ fc[r].file = "closed"

\* Two ranks open a file of one quadrant with a forest of two quadrants and
\* get NULL with success.
C18_Witness ==
  /\ OpenReadMismatch /\ rd.written = 1
  /\ p4est.global_num_quadrants = 2 /\ p4est.mpisize = 2
  /\ \A r \in RanksNow :
       /\ ret[r].val = "NULL" /\ ret[r].errcode = sc_MPI_SUCCESS
       /\ fc[r].st = "freed" /\ fc[r].file = "closed"

\* The part of C18 the code keeps: the mismatch is answered with NULL and
\* the context released on every rank.
MismatchReleases ==
  OpenReadMismatch
  => \A r \in RanksNow :
       ret[r].val = "NULL" /\ fc[r].st = "freed" /\ fc[r].file = "closed"


(***************************************************************************)
(* C19: open_read and the file header                                      *)
(***************************************************************************)
\* open_read ran without an I/O fault with the forest that wrote the file.
OpenReadDone == last.op = "open_read" /\ last.fault = NoFault

\* The user string open_create is given, as the file format stores it:
\* padded with spaces to 47 characters, and terminated.
StoredUserString ==
  FmtLeft(StrGreet, P4EST_NUM_USER_STRING_BYTES - 1) \o <<NUL>>

\* C19: open_read on a file with a malformed header returns NULL with
\* P4EST_ERR_IO on every rank, the file closed and the context freed; on a
\* well-formed header every rank gets a context, the user string and the
\* number of quadrants open_create stored.
C19_OpenReadHeader ==
  OpenReadDone
  => IF damage.kind \in HeaderDamageKinds
     THEN \A r \in RanksNow :
            /\ ret[r].val = "NULL" /\ ret[r].errcode = P4EST_ERR_IO
            /\ fc[r].st = "freed" /\ fc[r].file = "closed"
     ELSE \A r \in RanksNow :
            /\ ret[r].val = "fc" /\ fc[r].st = "live"
            /\ ret[r].user_string = StoredUserString
            /\ fc[r].global_num_quadrants = rd.written

\* open_read rejects a header nobody damaged.
C19_Witness ==
  /\ OpenReadDone /\ damage.kind \in DamageKinds /\ p4est.mpisize = 2
  /\ \A r \in RanksNow :
       /\ ret[r].val = "NULL" /\ ret[r].errcode = P4EST_ERR_IO
       /\ fc[r].st = "freed"

\* The part of C19 the code keeps: a damaged header is rejected on every
\* rank, and an accepted header gives every rank the stored number of
\* quadrants and one user string that starts as the stored one.
HeaderAnswers ==
  OpenReadDone
  => IF damage.kind \in HeaderDamageKinds
     THEN \A r \in RanksNow :
            /\ ret[r].val = "NULL" /\ ret[r].errcode = P4EST_ERR_IO
            /\ fc[r].st = "freed" /\ fc[r].file = "closed"
     ELSE (\E r \in RanksNow : ret[r].val = "fc")
          => \A r \in RanksNow :
               /\ ret[r].val = "fc" /\ fc[r].st = "live"
               /\ ret[r].user_string = ret[0].user_string
               /\ Take(ret[r].user_string, Len(StrGreet)) = StrGreet
               /\ fc[r].global_num_quadrants = rd.written


(***************************************************************************)
(* p4est_deflate_quadrants                                                 *)
(***************************************************************************)
MaxTrees == 2
MaxTreeQuads == 2

\* The order in which x, y, z and the level are stored, wrongly.
QuadTupleLevelFirst(q, dim) ==
  IF dim = 3 THEN <<q.level, q.x, q.y, q.z>> ELSE <<q.level, q.x, q.y>>

\* *qap++ = q->x; *qap++ = q->y; (P4_TO_P8: *qap++ = q->z;)
\* *qap++ = (p4est_qcoord_t) q->level;
QuadTuple(q, dim) ==
  IF dim = 3 THEN <<q.x, q.y, q.z, q.level>> ELSE <<q.x, q.y, q.level>>

\* The loop over the quadrants of one tree from index qz on.  acc holds
\* the two arrays and the write positions qap and dap (as element and byte
\* offsets from the start of the arrays).
RECURSIVE DeflateQuads(_, _, _, _, _, _)
DeflateQuads(quadrants, qz, dim, dsize, want_data, acc) ==
  IF qz >= Len(quadrants) THEN acc
  ELSE DeflateQuads(quadrants, qz + 1, dim, dsize, want_data,
         [qarr |-> [i \in 1 .. Len(acc.qarr) |->
                      IF i > acc.qap /\ i <= acc.qap + dim + 1
                      THEN QuadTuple(quadrants[qz + 1], dim)[i - acc.qap]
                      ELSE acc.qarr[i]],
          qap |-> acc.qap + dim + 1,
          darr |-> [i \in 1 .. Len(acc.darr) |->
                      IF want_data /\ i > acc.dap /\ i <= acc.dap + dsize
                      THEN quadrants[qz + 1].user_data[i - acc.dap]
                      ELSE acc.darr[i]],
          dap |-> IF want_data THEN acc.dap + dsize ELSE acc.dap])

\* The loop over the trees from tt to last_local_tree.
RECURSIVE DeflateTrees(_, _, _, _, _)
DeflateTrees(forest, tt, dim, want_data, acc) ==
  IF tt > forest.last_local_tree THEN acc
  ELSE DeflateTrees(forest, tt + 1, dim, want_data,
                    DeflateQuads(forest.trees[tt].quadrants, 0, dim,
                                 forest.data_size, want_data, acc))

\* want_data stands for data != NULL.  The arrays come from
\* sc_array_new_size with their final length and contents not yet set
\* (-1 here); darr stays <<>> for NULL.  The forest is only read.
p4est_deflate_quadrants(forest, dim, want_data) ==
  [p4est |-> forest,
   out |-> DeflateTrees(forest, forest.first_local_tree, dim, want_data,
             [qarr |-> [i \in 1 .. (dim + 1) * forest.local_num_quadrants
                          |-> -1],
              qap |-> 0,
              darr |-> IF want_data
                       THEN [i \in 1 .. forest.data_size
                                          * forest.local_num_quadrants |-> -1]
                       ELSE <<>>,
              dap |-> 0])]

\* The calls followed: forests of up to MaxTrees trees of which a range
\* (possibly empty: first_local_tree = -1, last_local_tree = -2) is local,
\* each local tree storing up to MaxTreeQuads quadrants in any order; the
\* quadrant with number id has coordinates and level made from id, and
\* the user data of a quadrant tells its tree and its place in the tree.
\* local_num_quadrants is the number of quadrants stored, as in every
\* valid forest.  A payload is asked for only with data_size > 0.
DeflateInputs ==
  LET Ids == UNION {[1 .. n -> 0 .. 2] : n \in 0 .. MaxTreeQuads}
      Quad(id, tt, k, dsize) ==
        [x |-> 2 * id, y |-> 3 * id + 1, z |-> 5 * id + 2, level |-> id,
         user_data |-> [j \in 1 .. dsize |-> 100 * tt + 10 * k + j]]
      Count(ids, lo, hi) ==
        LET RECURSIVE Sum(_)
            Sum(tt) == IF tt > hi THEN 0 ELSE Len(ids[tt]) + Sum(tt + 1)
        IN  Sum(lo)
      Make(T, lo, hi, ids, dsize) ==
        [first_local_tree |-> lo, last_local_tree |-> hi,
         local_num_quadrants |-> Count(ids, lo, hi),
         data_size |-> dsize,
         trees |-> [tt \in 0 .. (T - 1) |->
                      [quadrants |->
                         IF tt >= lo /\ tt <= hi
                         THEN [k \in 1 .. Len(ids[tt]) |->
                                 Quad(ids[tt][k], tt, k, dsize)]
                         ELSE <<>>]]]
      Forests(dsize) ==
        {Make(T, -1, -2, <<>>, dsize) : T \in 1 .. MaxTrees}
          \cup UNION {UNION {UNION {{Make(T, lo, hi, ids, dsize) :
                                       ids \in [lo .. hi -> Ids]} :
                                      hi \in lo .. (T - 1)} :
                               lo \in 0 .. (T - 1)} :
                        T \in 1 .. MaxTrees}
  IN  {[st |-> "call", p4est |-> f, dim |-> dim, want_data |-> w] :
         f \in Forests(0), dim \in {2, 3}, w \in {FALSE}}
        \cup {[st |-> "call", p4est |-> f, dim |-> dim, want_data |-> w] :
                f \in Forests(2), dim \in {2, 3}, w \in BOOLEAN}

InitDeflate ==
  /\ mpiio = FALSE
  /\ p4est = Forest(0, 1, <<0, 0>>)
  /\ file = <<>>
  /\ fc = [r \in Ranks(1) |-> NoCtx]
  /\ ret = [r \in Ranks(1) |-> NoRet]
  /\ phase = "start"
  /\ wlog = <<>>
  /\ last = NoLast
  /\ aux = NoAux
  /\ rd = NoRd
  /\ pi = NoPi
  /\ damage = NoDamage
  /\ df \in DeflateInputs

Deflate ==
  /\ df.st = "call"
  /\ \E res \in {p4est_deflate_quadrants(df.p4est, df.dim, df.want_data)} :
       df' = [st |-> "done", dim |-> df.dim, want_data |-> df.want_data,
              before |-> df.p4est, p4est |-> res.p4est,
              qarr |-> res.out.qarr, darr |-> res.out.darr]
  /\ UNCHANGED <<mpiio, p4est, file, fc, ret, phase, wlog, last, aux, rd, pi,
                 damage>>

SpecDeflate == InitDeflate /\ [][Deflate]_vars

(***************************************************************************)
(* C20: what deflate returns                                               *)
(***************************************************************************)
\* The number of quadrants stored in the local trees before tree tt.
RECURSIVE QuadsBefore(_, _)
QuadsBefore(forest, tt) ==
  IF tt <= forest.first_local_tree THEN 0
  ELSE QuadsBefore(forest, tt - 1)
         + Len(forest.trees[tt - 1].quadrants)

\* C20: deflate returns exactly (D + 1) * N_local coordinates that hold,
\* for the local trees in increasing index and the quadrants of each tree
\* in stored order, the tuple (x, y[, z], level); a requested payload has
\* exactly N_local records of data_size bytes in the same order; the forest
\* is not modified.
C20_DeflateOutput ==
  df.st = "done"
  => LET f == df.before
         D == df.dim
         s == f.data_size
     IN  /\ Len(df.qarr) = (D + 1) * f.local_num_quadrants
         /\ df.want_data => Len(df.darr) = s * f.local_num_quadrants
         /\ \A tt \in f.first_local_tree .. f.last_local_tree :
              \A k \in 1 .. Len(f.trees[tt].quadrants) :
                LET i == QuadsBefore(f, tt) + k - 1
                    q == f.trees[tt].quadrants[k]
                IN  /\ df.qarr[(D + 1) * i + 1] = q.x
                    /\ df.qarr[(D + 1) * i + 2] = q.y
                    /\ D = 3 => df.qarr[(D + 1) * i + 3] = q.z
                    /\ df.qarr[(D + 1) * i + D + 1] = q.level
                    /\ df.want_data
                         => SubSeq(df.darr, s * i + 1, s * (i + 1))
                              = q.user_data
         /\ df.p4est = f

\* Deflate of a three-dimensional forest with two local trees holding two
\* quadrants each, stored out of coordinate order, with the payload.
C20_Witness ==
  /\ df.st = "done" /\ df.dim = 3 /\ df.want_data
  /\ df.before.first_local_tree = 0 /\ df.before.last_local_tree = 1
  /\ Len(df.before.trees[0].quadrants) = 2
  /\ Len(df.before.trees[1].quadrants) = 2
  /\ df.before.trees[0].quadrants[1].level = 2
  /\ df.before.trees[0].quadrants[2].level = 1
  /\ Len(df.qarr) = 16 /\ Len(df.darr) = 8


(***************************************************************************)
(* p4est_inflate                                                           *)
(***************************************************************************)
MaxInflateTrees == 3

\* sc_bsearch_range (&gkey, pertree, num_trees, ...): the range jt of the
\* non-decreasing array pertree[0 .. num_trees] with
\* pertree[jt] <= gkey < pertree[jt + 1].
sc_bsearch_range(gkey, pertree, num_trees) ==
  CHOOSE jt \in 0 .. (num_trees - 1) :
    pertree[jt] <= gkey /\ gkey < pertree[jt + 1]

\* The trees that get the local quadrants, wrongly: the first one is the
\* one after the tree that holds gfq[rank].
FirstLocalTreeNext(gkey, pertree, num_trees) ==
  Min(sc_bsearch_range(gkey, pertree, num_trees) + 1, num_trees - 1)

\* gk1 = sc_bsearch_range (&gkey, pertree, num_trees, ...), gkey = gfq[rank]
FirstLocalTree(gkey, pertree, num_trees) ==
  sc_bsearch_range(gkey, pertree, num_trees)

\* P4EST_MAXLEVEL and P4EST_QMAXLEVEL of the two- and the
\* three-dimensional build.
P4EST_MAXLEVEL(dim) == IF dim = 3 THEN 19 ELSE 30

P4EST_QMAXLEVEL(dim) == P4EST_MAXLEVEL(dim) - 1

\* Counters that are never incremented.
IncrLevelNever(quadrants_per_level, ql) == quadrants_per_level

\* ++tree->quadrants_per_level[ql];
IncrLevel(quadrants_per_level, ql) ==
  [quadrants_per_level EXCEPT ![ql] = @ + 1]

\* The counters of a tree after the two loops that set them up: 0 up to
\* P4EST_QMAXLEVEL, -1 from there to P4EST_MAXLEVEL.
InitLevels(dim) ==
  [i \in 0 .. P4EST_MAXLEVEL(dim) |->
     IF i <= P4EST_QMAXLEVEL(dim) THEN 0 ELSE 0 - 1]

\* The loop over the zqthistree quadrants of tree jt from index qz on: each
\* takes its tuple from qap and, with data != NULL, its dsize bytes of user
\* data from dap.  tml is the largest level seen.
RECURSIVE InflateQuads(_, _, _, _, _, _, _)
InflateQuads(zqthistree, qz, dim, dsize, quadrants, data, acc) ==
  IF qz >= zqthistree THEN acc
  ELSE InflateQuads(zqthistree, qz + 1, dim, dsize, quadrants, data,
         [quadrants |->
            Append(acc.quadrants,
                   [x |-> quadrants[acc.qap + 1],
                    y |-> quadrants[acc.qap + 2],
                    z |-> IF dim = 3 THEN quadrants[acc.qap + 3] ELSE 0,
                    level |-> quadrants[acc.qap + dim + 1],
                    user_data |-> SubSeq(data, acc.dap + 1,
                                         acc.dap + dsize)]),
          tml |-> Max(acc.tml, quadrants[acc.qap + dim + 1]),
          qpl |-> IncrLevel(acc.qpl, quadrants[acc.qap + dim + 1]),
          qap |-> acc.qap + dim + 1,
          dap |-> acc.dap + dsize])

\* One pass of the loop over the trees for a tree with local quadrants.
\* With zqthistree = 0 no quadrant is set up and q is still NULL when
\* p4est_quadrant_last_descendant (q, ...) is called: the call is
\* undefined.
InflateLocalTree(pertree, jt, dim, dsize, quadrants, data, acc) ==
  LET gtreeremain == pertree[jt + 1] - pertree[jt] - acc.gtreeskip
      zqthistree == Min(gtreeremain, acc.gquadremain)
      filled == InflateQuads(zqthistree, 0, dim, dsize, quadrants, data,
                             [quadrants |-> <<>>, tml |-> 0,
                              qpl |-> InitLevels(dim),
                              qap |-> acc.qap, dap |-> acc.dap])
  IN  [trees |-> Append(acc.trees,
                        [quadrants |-> filled.quadrants,
                         quadrants_offset |-> acc.zqoffset,
                         quadrants_per_level |-> filled.qpl,
                         maxlevel |-> filled.tml]),
       zqoffset |-> acc.zqoffset + zqthistree,
       gquadremain |-> acc.gquadremain - zqthistree,
       gtreeskip |-> 0,
       qap |-> filled.qap, dap |-> filled.dap,
       undefined |-> acc.undefined \/ zqthistree = 0]

\* The loop over all trees from jt on; acc.trees holds the trees set up so
\* far (tree 0 first).
RECURSIVE InflateTrees(_, _, _, _, _, _, _, _, _)
InflateTrees(num_trees, first, last_tree, pertree, jt, dim, dsize, arrays, acc) ==
  IF jt >= num_trees THEN acc
  ELSE InflateTrees(num_trees, first, last_tree, pertree, jt + 1, dim, dsize,
                    arrays,
         IF jt >= first /\ jt <= last_tree
         THEN InflateLocalTree(pertree, jt, dim, dsize, arrays.quadrants,
                               arrays.data, acc)
         ELSE [acc EXCEPT
                 !.trees = Append(@, [quadrants |-> <<>>,
                                      quadrants_offset |-> acc.zqoffset,
                                      quadrants_per_level |->
                                        InitLevels(dim),
                                      maxlevel |-> 0])])

\* The forest p4est_inflate returns on one rank.  gfq[p + 1] stands for
\* global_first_quadrant[p]; has_data for data != NULL, dsize being
\* data->elem_size; trees come back as a function of the tree index.
InflateResult(gfq, num_procs, rank, num_trees, first, last_tree, dsize, out) ==
  [st |-> IF out.undefined THEN "undefined" ELSE "forest",
   global_first_quadrant |-> gfq,
   global_num_quadrants |-> gfq[num_procs + 1],
   local_num_quadrants |-> gfq[rank + 2] - gfq[rank + 1],
   data_size |-> dsize, revision |-> 0,
   first_local_tree |-> first, last_local_tree |-> last_tree,
   consumed |-> out.qap,
   trees |-> [jt \in 0 .. (num_trees - 1) |-> out.trees[jt + 1]]]

p4est_inflate(gfq, num_procs, rank, pertree, num_trees, dim, quadrants, has_data, elem_size, data) ==
  LET dsize == IF has_data THEN elem_size ELSE 0
      local_num_quadrants == gfq[rank + 2] - gfq[rank + 1]
      first == IF local_num_quadrants > 0
               THEN FirstLocalTree(gfq[rank + 1], pertree, num_trees)
               ELSE -1
      last_tree == IF local_num_quadrants > 0
                   THEN sc_bsearch_range(gfq[rank + 2] - 1, pertree,
                                         num_trees)
                   ELSE -2
      gtreeskip == IF local_num_quadrants > 0
                   THEN gfq[rank + 1] - pertree[first] ELSE 0
  IN  InflateResult(gfq, num_procs, rank, num_trees, first, last_tree, dsize,
        InflateTrees(num_trees, first, last_tree, pertree, 0, dim, dsize,
                     [quadrants |-> quadrants, data |-> data],
                     [trees |-> <<>>, zqoffset |-> 0,
                      gquadremain |-> local_num_quadrants,
                      gtreeskip |-> gtreeskip, qap |-> 0, dap |-> 0,
                      undefined |-> FALSE]))

\* The calls followed.  A forest of up to MaxInflateTrees trees, tree t
\* holding counts[t] quadrants (pertree being the running sums), is
\* partitioned by gfq among up to MaxProcs ranks; the forest of rank r
\* holds the quadrants with global numbers gfq[r] .. gfq[r + 1] - 1, its
\* first and last local tree being the trees of the first and the last of
\* them (-1 and -2 without local quadrants).  The quadrant at place k of
\* tree t has coordinates, level and user data made from t and k.
InflateInputs ==
  LET Quad(t, k, dsize) ==
        [x |-> 4 * t + k, y |-> 3 * k + 1, z |-> 7 - k,
         level |-> (t + k) % 3,
         user_data |-> [j \in 1 .. dsize |-> 100 * t + 10 * k + j]]
      Pertree(T, counts) ==
        LET RECURSIVE Sum(_)
            Sum(t) == IF t = 0 THEN 0 ELSE Sum(t - 1) + counts[t - 1]
        IN  [t \in 0 .. T |-> Sum(t)]
      Local(T, pt, gfq, r, dsize) ==
        LET a == gfq[r + 1]
            b == gfq[r + 2]
            Mine(t) == {k \in 1 .. (pt[t + 1] - pt[t]) :
                          pt[t] + k - 1 >= a /\ pt[t] + k - 1 < b}
            Has == {t \in 0 .. (T - 1) : Mine(t) # {}}
            lo(t) == CHOOSE k \in Mine(t) : \A m \in Mine(t) : k <= m
        IN  [first_local_tree |->
               IF Has = {} THEN -1
               ELSE CHOOSE t \in Has : \A u \in Has : t <= u,
             last_local_tree |->
               IF Has = {} THEN -2
               ELSE CHOOSE t \in Has : \A u \in Has : t >= u,
             local_num_quadrants |-> b - a,
             global_num_quadrants |-> pt[T],
             global_first_quadrant |-> gfq,
             data_size |-> dsize,
             trees |-> [t \in 0 .. (T - 1) |->
                          [quadrants |->
                             [i \in 1 .. Cardinality(Mine(t)) |->
                                Quad(t, lo(t) + i - 1, dsize)]]]]
      Calls(T, counts, dsize) ==
        UNION {UNION {{[st |-> "forest", num_trees |-> T,
                        pertree |-> Pertree(T, counts),
                        num_procs |-> P, rank |-> r, dim |-> dim,
                        p4est |-> Local(T, Pertree(T, counts), gfq, r,
                                        dsize)] :
                         r \in 0 .. (P - 1), dim \in {2, 3}} :
                       gfq \in Partitions(Pertree(T, counts)[T], P)} :
                 P \in 1 .. MaxProcs}
  IN  UNION {UNION {Calls(T, counts, dsize) :
                      counts \in [0 .. (T - 1) -> 0 .. MaxTreeQuads],
                      dsize \in {0, 2}} :
               T \in 1 .. MaxInflateTrees}

InitInflate ==
  /\ mpiio = FALSE
  /\ p4est = Forest(0, 1, <<0, 0>>)
  /\ file = <<>>
  /\ fc = [r \in Ranks(1) |-> NoCtx]
  /\ ret = [r \in Ranks(1) |-> NoRet]
  /\ phase = "start"
  /\ wlog = <<>>
  /\ last = NoLast
  /\ aux = NoAux
  /\ rd = NoRd
  /\ pi = NoPi
  /\ damage = NoDamage
  /\ df \in InflateInputs

\* The forest is deflated, with its user data if it has any.
DeflateForInflate ==
  /\ df.st = "forest"
  /\ \E res \in {p4est_deflate_quadrants(df.p4est, df.dim,
                                          df.p4est.data_size > 0)} :
       df' = [df EXCEPT !.st = "deflated"] @@
             [qarr |-> res.out.qarr, darr |-> res.out.darr]
  /\ UNCHANGED <<mpiio, p4est, file, fc, ret, phase, wlog, last, aux, rd, pi,
                 damage>>

\* The arrays are inflated with the partition and the counts per tree of
\* the forest they come from.  An undefined call ends the process: at the
\* assertion gtreeremain > 0 of a debug build, or in the access through q.
Inflate ==
  /\ df.st = "deflated"
  /\ \E res \in {p4est_inflate(df.p4est.global_first_quadrant, df.num_procs,
                               df.rank, df.pertree, df.num_trees, df.dim,
                               df.qarr, df.p4est.data_size > 0,
                               df.p4est.data_size, df.darr)} :
       \E end \in IF res.st = "undefined" THEN {"aborted", "crashed"}
                  ELSE {"inflated"} :
         df' = [df EXCEPT !.st = end] @@ [inflated |-> res]
  /\ UNCHANGED <<mpiio, p4est, file, fc, ret, phase, wlog, last, aux, rd, pi,
                 damage>>

\* The forest that came back is deflated again.
DeflateAgain ==
  /\ df.st = "inflated"
  /\ \E res \in {p4est_deflate_quadrants(df.inflated, df.dim,
                                          df.inflated.data_size > 0)} :
       df' = [df EXCEPT !.st = "again"] @@
             [qarr2 |-> res.out.qarr, darr2 |-> res.out.darr]
  /\ UNCHANGED <<mpiio, p4est, file, fc, ret, phase, wlog, last, aux, rd, pi,
                 damage>>

NextInflate == DeflateForInflate \/ Inflate \/ DeflateAgain

SpecInflate == InitInflate /\ [][NextInflate]_vars


(***************************************************************************)
(* C21: deflate and inflate                                                *)
(***************************************************************************)
\* Forests f and g agree in what C21 lists.
SameForest(f, g, dim) ==
  /\ g.global_num_quadrants = f.global_num_quadrants
  /\ g.global_first_quadrant = f.global_first_quadrant
  /\ g.first_local_tree = f.first_local_tree
  /\ g.last_local_tree = f.last_local_tree
  /\ DOMAIN g.trees = DOMAIN f.trees
  /\ \A t \in DOMAIN f.trees :
       /\ Len(g.trees[t].quadrants) = Len(f.trees[t].quadrants)
       /\ \A k \in 1 .. Len(f.trees[t].quadrants) :
            /\ QuadTuple(g.trees[t].quadrants[k], dim)
                 = QuadTuple(f.trees[t].quadrants[k], dim)
            /\ g.trees[t].quadrants[k].user_data
                 = f.trees[t].quadrants[k].user_data

\* C21: inflating the arrays deflate made of a forest, with the forest's
\* partition and counts per tree, yields a forest with the same number of
\* quadrants, partition, first and last local tree, quadrants per tree,
\* tuples and payload, and deflating that forest gives the same arrays.
C21_DeflateInflateIdentity ==
  /\ df.st \notin {"aborted", "crashed"}
  /\ df.st \in {"inflated", "again"}
       => SameForest(df.p4est, df.inflated, df.dim)
  /\ df.st = "again" => (df.qarr2 = df.qarr /\ df.darr2 = df.darr)

\* One rank inflates a forest of three trees holding 2, 0 and 2 quadrants
\* and does not return.
C21_Witness ==
  /\ df.st = "crashed" /\ df.num_procs = 1 /\ df.num_trees = 3
  /\ df.pertree[1] = 2 /\ df.pertree[2] = 2 /\ df.pertree[3] = 4
  /\ Len(df.qarr) = (df.dim + 1) * 4

\* A tree without quadrants lies between the first and the last local tree.
EmptyTreeInside ==
  \E t \in 0 .. (df.num_trees - 1) :
    /\ df.p4est.first_local_tree < t /\ t < df.p4est.last_local_tree
    /\ df.pertree[t + 1] = df.pertree[t]

\* The part of C21 the code keeps: without an empty tree inside the local
\* range the call returns and the identity holds; with one it never
\* returns.
IdentityWithoutEmptyTree ==
  /\ df.st \in {"aborted", "crashed"} <=>
       (df.st \notin {"forest", "deflated"} /\ EmptyTreeInside)
  /\ df.st \in {"inflated", "again"}
       => SameForest(df.p4est, df.inflated, df.dim)
  /\ df.st = "again" => (df.qarr2 = df.qarr /\ df.darr2 = df.darr)

(***************************************************************************)
(* C22: the first and the last local tree                                  *)
(***************************************************************************)
\* Tree t holds the quadrant with global number g.
TreeHolds(t, g) == df.pertree[t] <= g /\ g < df.pertree[t + 1]

\* C22: on a rank without local quadrants inflate sets first_local_tree
\* to -1 and last_local_tree to -2 and gives every tree zero quadrants; on
\* a rank with local quadrants first_local_tree is the tree of global
\* quadrant gfq[r], last_local_tree the tree of global quadrant
\* gfq[r + 1] - 1, and 0 <= first_local_tree <= last_local_tree < T.
C22_LocalTreeRange ==
  df.st \in {"inflated", "again"}
  => LET f == df.inflated
         a == f.global_first_quadrant[df.rank + 1]
         b == f.global_first_quadrant[df.rank + 2]
     IN  IF b - a = 0
         THEN /\ f.first_local_tree = -1 /\ f.last_local_tree = -2
              /\ \A t \in DOMAIN f.trees : f.trees[t].quadrants = <<>>
         ELSE /\ TreeHolds(f.first_local_tree, a)
              /\ TreeHolds(f.last_local_tree, b - 1)
              /\ 0 <= f.first_local_tree
              /\ f.first_local_tree <= f.last_local_tree
              /\ f.last_local_tree < df.num_trees

\* Rank 1 of 2 inflates its part, which starts inside tree 0 and ends in
\* tree 1.
C22_Witness ==
  /\ df.st = "inflated" /\ df.num_procs = 2 /\ df.rank = 1
  /\ df.num_trees = 2 /\ df.pertree[1] = 2 /\ df.pertree[2] = 4
  /\ df.inflated.global_first_quadrant = <<0, 1, 4>>
  /\ df.inflated.first_local_tree = 0 /\ df.inflated.last_local_tree = 1
  /\ Len(df.inflated.trees[0].quadrants) = 1

\* A rank without quadrants inflates.
EmptyRankInflated ==
  /\ df.st = "inflated" /\ df.num_procs = 2 /\ df.rank = 0
  /\ df.inflated.global_first_quadrant = <<0, 0, 2>>
  /\ df.inflated.first_local_tree = -1 /\ df.inflated.last_local_tree = -2


(***************************************************************************)
(* get_padding_string on its own                                           *)
(***************************************************************************)
MaxPadInput == 70

InitPad ==
  /\ mpiio = FALSE
  /\ p4est = Forest(0, 1, <<0, 0>>)
  /\ file = <<>>
  /\ fc = [r \in Ranks(1) |-> NoCtx]
  /\ ret = [r \in Ranks(1) |-> NoRet]
  /\ phase = "start"
  /\ wlog = <<>>
  /\ last = NoLast
  /\ aux = NoAux
  /\ rd = NoRd
  /\ pi = NoPi
  /\ damage = NoDamage
  /\ df \in {[st |-> "pad", num_bytes |-> L] : L \in 0 .. MaxPadInput}

\* get_padding_string (num_bytes, P4EST_BYTE_DIV, pad, &num_pad_bytes)
GetPaddingString ==
  /\ df.st = "pad"
  /\ df' = [st |-> "padded", num_bytes |-> df.num_bytes,
            num_pad_bytes |-> NumPadBytes(df.num_bytes, P4EST_BYTE_DIV),
            pad |-> PadString(df.num_bytes, P4EST_BYTE_DIV)]
  /\ UNCHANGED <<mpiio, p4est, file, fc, ret, phase, wlog, last, aux, rd, pi,
                 damage>>

SpecPad == InitPad /\ [][GetPaddingString]_vars

(***************************************************************************)
(* C23: the padding                                                        *)
(***************************************************************************)
\* C23: for every payload length L the number of padding bytes lies in
\* 2 .. 17, makes L a multiple of 16, is the smallest such number that is
\* at least 2, and the padding is a newline, spaces and a newline.
C23_Padding ==
  df.st = "padded"
  => LET L == df.num_bytes
         n == df.num_pad_bytes
     IN  /\ n >= 2 /\ n <= 17
         /\ (L + n) % 16 = 0
         /\ \A m \in 2 .. (n - 1) : (L + m) % 16 # 0
         /\ Len(df.pad) = n
         /\ df.pad[1] = NL /\ df.pad[n] = NL
         /\ \A i \in 2 .. (n - 1) : df.pad[i] = SP

\* The padding of 31 bytes is 17 bytes long.
C23_Witness ==
  /\ df.st = "padded" /\ df.num_bytes = 31 /\ df.num_pad_bytes = 17
  /\ Len(df.pad) = 17


(***************************************************************************)
(* C24: the layout of the file prelude                                     *)
(***************************************************************************)
\* open_create has just written the prelude.
PreludeWritten ==
  /\ last.op = "open_create" /\ last.fault = NoFault
  /\ \A r \in RanksNow : ret[r].val = "fc"

\* The four columns of the file header as C24 lists them.
HeaderColumns ==
  P4EST_MAGIC_NUMBER \o <<NL>> \o FmtLeft(p4est_version, 23) \o <<NL>>
    \o FmtLeft(StrGreet, 47) \o <<NL>>
    \o FmtZeroPad(p4est.global_num_quadrants, 16)

\* C24: the file header open_create writes is 64 bytes long and consists
\* of magic, version, 47-byte user string (each with a newline) and the
\* 16-digit number of quadrants; 16 padding bytes (newline, 14 spaces,
\* newline) follow, so that the first section starts at byte 80; and the
\* readers parse the columns the writer emits, accepting the header.
C24_PreludeLayout ==
  /\ PreludeWritten
       => /\ Len(HeaderColumns) = P4EST_NUM_METADATA_BYTES
          /\ file = HeaderColumns \o <<NL>> \o Fill(SP, 14) \o <<NL>>
          /\ Len(file) = Prelude
  /\ (last.op = "open_read" /\ last.fault = NoFault
        /\ p4est.global_num_quadrants = rd.written)
       => \A r \in RanksNow : ret[r].val = "fc"

\* The prelude of a forest of two quadrants: 80 bytes that end with the
\* user string column; no digit of the number of quadrants is in the file.
C24_Witness ==
  /\ PreludeWritten /\ p4est.global_num_quadrants = 2
  /\ Len(file) = Prelude
  /\ SubSeq(file, 33, 80) = FmtLeft(StrGreet, 47) \o <<NL>>
  /\ \A i \in 33 .. Len(file) : ~IsDigit(file[i])

\* The part of C24 the code keeps: the prelude is 80 bytes long, starts
\* with the magic and the version columns, and the first section
\* follows at byte 80.
PreludeLength ==
  /\ PreludeWritten
       => /\ Len(file) = Prelude
          /\ SubSeq(file, 1, 32)
               = P4EST_MAGIC_NUMBER \o <<NL>> \o FmtLeft(p4est_version, 23)
                   \o <<NL>>
  /\ (phase = "write" /\ Len(wlog) > 0)
       => SubSeq(file, Prelude + 1, Prelude + 2) = <<wlog[1].type, SP>>


(***************************************************************************)
(* C25: where a skip leaves the cursor                                     *)
(***************************************************************************)
\* The last call skipped the section under the cursor (no buffer passed)
\* and succeeded on every rank.
SkippedSection ==
  /\ last.op \in {"read_header", "read_field"} /\ ~last.has_data
  /\ OnSection
  /\ \A r \in RanksNow :
       /\ ret[r].val = "NULL" /\ ret[r].errcode = sc_MPI_SUCCESS
       /\ fc[r].st = "live"

\* C25: after a successful skipping call accessed_bytes has advanced by
\* 64 + L + pad_len(L), L being the payload length stored in the file for
\* the skipped section, whatever size the caller passed.
C25_SkipAdvance ==
  SkippedSection
  => \A r \in RanksNow :
       fc[r].accessed_bytes
         = last.at + SectionBytes(CurrentSection, p4est.global_num_quadrants)

\* read_header without a buffer and with header_size 0 skips a header
\* section of 15 bytes and advances by 80 bytes instead of 96.
C25_Witness ==
  /\ SkippedSection /\ last.op = "read_header" /\ last.size = 0
  /\ CurrentSection.type = CharH /\ CurrentSection.size = 15
  /\ \A r \in RanksNow : fc[r].accessed_bytes = last.at + 80

\* The part of C25 the code keeps: read_field advances by the stored size,
\* and read_header by the size the caller passes.
SkipAdvanceBySize ==
  SkippedSection
  => \A r \in RanksNow :
       fc[r].accessed_bytes
         = last.at + P4EST_NUM_FIELD_HEADER_BYTES
             + (IF last.op = "read_field"
                THEN PayloadLen(CurrentSection, p4est.global_num_quadrants)
                       + NumPadBytes(PayloadLen(CurrentSection,
                                                p4est.global_num_quadrants),
                                     P4EST_BYTE_DIV)
                ELSE last.size + NumPadBytes(last.size, P4EST_BYTE_DIV))


(***************************************************************************)
(* C26: a short count on rank 0                                            *)
(***************************************************************************)
\* The read of the last call got as far as the section header: no rank left
\* through the file size check of the MPI I/O builds.
ReadReachedMetadata ==
  /\ last.op \in {"read_header", "read_field"}
  /\ last.op = "read_field" => aux.early = {}
  /\ last.op = "read_header" =>
       ~(mpiio /\ last.has_data /\ last.size > 0
           /\ FileTooSmall(Len(file), last.size))

\* The read of the last call accepted the section header under the cursor.
ReadAcceptedMetadata ==
  /\ ReadReachedMetadata /\ OnSection
  /\ CurrentSection.type = (IF last.op = "read_field" THEN CharF ELSE CharH)
  /\ (last.has_data /\ last.size > 0) => CurrentSection.size = last.size

\* A read or write that rank 0 makes alone in the last call came back
\* without an error and with fewer bytes than requested.
Rank0ShortCount ==
  /\ last.op \in {"open_create", "open_read", "write_header", "write_field",
                  "read_header", "read_field"}
  /\ last.fault.kind = "short"
  /\ last.fault.step \in {"meta", "data", "pad"}
  /\ last.op \in {"write_header", "write_field"} => last.size > 0
  /\ last.op \in {"read_header", "read_field"} =>
       IF last.fault.step = "meta" THEN ReadReachedMetadata
       ELSE ReadAcceptedMetadata

\* C26: when a read or write rank 0 makes alone inside open_create,
\* open_read, write_header, read_header, write_field or read_block_metadata
\* returns a byte count other than the requested one without a backend
\* error, every rank returns NULL with errcode equal to the count error.
C26_Rank0CountError ==
  Rank0ShortCount
  => \A r \in RanksNow :
       ret[r].val = "NULL" /\ ret[r].errcode = P4EST_FILE_COUNT_ERROR

\* The section header of write_header is written short on rank 0 of two
\* ranks: rank 0 returns the count error, rank 1 another error code.
C26_Witness ==
  /\ Rank0ShortCount /\ last.op = "write_header"
  /\ last.fault.step = "meta" /\ p4est.mpisize = 2
  /\ ret[0].val = "NULL" /\ ret[0].errcode = P4EST_FILE_COUNT_ERROR
  /\ ret[1].val = "NULL" /\ ret[1].errcode # P4EST_FILE_COUNT_ERROR
  /\ ret[1].errcode # sc_MPI_SUCCESS

\* The part of C26 the code keeps: rank 0, when it returns, returns NULL
\* with the count error, and a single rank always does unless the job is
\* aborted.
Rank0ReturnsCountError ==
  Rank0ShortCount
  => /\ ret[0].val \in {"NULL", "blocked", "abort"}
     /\ ret[0].val = "NULL" => ret[0].errcode = P4EST_FILE_COUNT_ERROR
     /\ (p4est.mpisize = 1 /\ ret[0].val # "abort") => ret[0].val = "NULL"


(***************************************************************************)
(* C27: the collective calls of the ranks                                  *)
(***************************************************************************)
\* What the last call shows of its collective calls: rank 0 entered none
\* alone, no rank waits in one that the others never enter, and the code
\* rank 0 broadcast after a failure of a step of its own was taken for
\* what it is, so that every rank reports the error code of rank 0.
CollectivesMatched ==
  /\ ~aux.unmatched
  /\ \A r \in RanksNow : ret[r].val # "blocked"
  /\ (/\ last.op \in {"open_create", "open_read", "write_header",
                      "write_field", "read_header", "read_field"}
      /\ last.fault.step \in {"meta", "data", "pad"})
     => \A r \in RanksNow : ret[r].errcode = ret[0].errcode

\* C27: in every execution of every file operation, the error paths of
\* rank 0 included, all ranks enter the same sequence of collective calls,
\* each broadcast value is received into the variable it was sent for, and
\* no rank enters a collective that the others never enter.
C27_CollectiveMatching == last.op # "none" => CollectivesMatched

\* The write of the header data fails on rank 0 of two ranks: rank 0
\* broadcasts alone and returns NULL, rank 1 returns fc.
C27_Witness ==
  /\ last.op = "write_header" /\ last.fault.step = "data"
  /\ p4est.mpisize = 2 /\ aux.unmatched
  /\ ret[0].val = "NULL" /\ ret[0].errcode # sc_MPI_SUCCESS
  /\ ret[1].val = "fc" /\ ret[1].errcode = sc_MPI_SUCCESS

\* The part of C27 the code keeps: the calls of a single rank, and the
\* calls of a writer in which no I/O call fails.
MatchedWithoutFault ==
  (\/ p4est.mpisize = 1
   \/ /\ last.op \in {"open_create", "write_header", "write_field", "close"}
      /\ last.fault = NoFault)
  => CollectivesMatched


(***************************************************************************)
(* C28: p4est_file_info returns                                            *)
(***************************************************************************)
\* A writer produces a file and p4est_file_info looks at it; every call
\* that can be made is made.
NextInfo == OpenCreate \/ WriteHeader \/ WriteField \/ Close \/ Info

SpecInfo == Init /\ [][NextInfo]_vars /\ WF_vars(NextInfo)

\* Rank r of the last p4est_file_info accepted the file header.
InfoHeaderPassed(r) ==
  LET chk == check_file_metadata(
               MetadataMemory(ReadAt(file, 0, P4EST_NUM_METADATA_BYTES),
                              last.oobs[r]))
  IN  /\ chk.err = sc_MPI_SUCCESS
      /\ chk.global_num_quadrants = p4est.global_num_quadrants

\* Rank 0 of the last p4est_file_info met an error of the backend in its
\* loop over the sections: reading the first section header, or reading
\* the padding of the first section.
InfoScanError ==
  /\ last.op = "info" /\ last.fault.kind = "err"
  /\ last.fault.step \in {"meta", "pad"}
  /\ InfoHeaderPassed(0)
  /\ last.fault.step = "pad" => Len(wlog) >= 1

\* C28: if rank 0 meets an I/O error of the backend while it reads a
\* section header or padding in its scan loop, every rank eventually
\* returns from p4est_file_info, and every rank returns -1.
C28_InfoAlwaysReturns ==
  InfoScanError ~> (\A r \in RanksNow : ret[r].val = "-1")

\* The read of the first section header fails on rank 0 of two ranks:
\* rank 0 has returned -1, rank 1 waits in the broadcast.
C28_Witness ==
  /\ InfoScanError /\ last.fault.step = "meta" /\ p4est.mpisize = 2
  /\ InfoHeaderPassed(1)
  /\ ret[0].val = "-1" /\ ret[0].errcode # sc_MPI_SUCCESS
  /\ ret[1].val = "blocked"

\* The part of C28 the code keeps: rank 0 returns -1 with the error class,
\* which with a single rank is every rank.
InfoRootReturns ==
  InfoScanError
  => /\ ret[0].val = "-1" /\ ret[0].errcode # sc_MPI_SUCCESS
     /\ p4est.mpisize = 1 => \A r \in RanksNow : ret[r].val = "-1"


(***************************************************************************)
(* C29: p4est_file_info reports one result                                 *)
(***************************************************************************)
\* What C29 asks of the ranks' results.
InfoSameResult ==
  /\ (\E r \in RanksNow : ret[r].val = "-1")
     => \A r \in RanksNow :
          ret[r].val = "-1" /\ ret[r].errcode # sc_MPI_SUCCESS
  /\ (\E r \in RanksNow : ret[r].val = "0")
     => \A r \in RanksNow : ret[r].errcode = sc_MPI_SUCCESS

\* C29: whenever p4est_file_info returns -1 on a rank (the open fails, the
\* read of the file header fails or comes back short, the header is
\* malformed, the number of quadrants differs) it returns -1 with an error
\* code other than success on every rank; whenever it returns 0, the error
\* code is success on every rank.  Errors in the scan loop are left to C28.
C29_InfoSameResult ==
  (last.op = "info" /\ ~InfoScanError) => InfoSameResult

\* The read of the file header fails on rank 0 of two ranks: both return
\* -1, rank 0 with the error class and rank 1 with success.
C29_Witness ==
  /\ last.op = "info" /\ p4est.mpisize = 2
  /\ last.fault.step = "file" /\ last.fault.kind = "err"
  /\ ret[0].val = "-1" /\ ret[0].errcode # sc_MPI_SUCCESS
  /\ ret[1].val = "-1" /\ ret[1].errcode = sc_MPI_SUCCESS

\* The part of C29 the code keeps: the ranks agree when the open fails,
\* when the header comes back short, and when every rank sees the same
\* bytes behind its metadata array and neither the read of the header nor
\* the close fails.
InfoAgreesOtherwise ==
  (/\ last.op = "info" /\ ~InfoScanError
   /\ ~(last.fault.step = "file" /\ last.fault.kind = "err")
   /\ last.fault.step # "close"
   /\ \/ last.fault.step = "open"
      \/ last.fault.step = "file"
      \/ \A r \in RanksNow : last.oobs[r] = last.oobs[0])
  => InfoSameResult


(***************************************************************************)
(* C30: where and in which order a section is written                      *)
(***************************************************************************)
\* The section the last call of a writer writes, the absolute offset at
\* which it starts, and the place of a write among the three parts.
WrittenSection ==
  [type |-> IF last.op = "write_field" THEN CharF ELSE CharH,
   size |-> last.size]

WrittenStart == Prelude + last.at

PartOrder(what) ==
  IF what = "header" THEN 1 ELSE IF what = "payload" THEN 2 ELSE 3

\* The offset in the payload at which rank r stores its bytes.
SliceOffset(r) ==
  IF last.op = "write_field"
  THEN p4est.global_first_quadrant[r + 1] * last.size ELSE 0

\* C30: the i-th section starts exactly where the padding of section i - 1
\* ends; its header is at offset 80 + accessed_bytes, its payload 64 bytes
\* behind (the slice of rank r of a field gfq[r] * s bytes further), its
\* padding at + 64 + L; the header is written before the payload and the
\* payload before the padding; no write touches a byte of an earlier
\* section or of the 80 bytes of the file prelude.
C30_SectionLayout ==
  last.op \in {"write_header", "write_field"}
  => LET N == p4est.global_num_quadrants
         L == PayloadLen(WrittenSection, N)
         w == aux.writes
         parts == {i \in 1 .. Len(w) : w[i].what # "setsize"}
     IN  /\ last.at = SumSections(wlog, last.k, N)
         /\ \A i \in 1 .. Len(w) : w[i].lo >= WrittenStart
         /\ \A i \in parts :
              /\ w[i].what = "header" =>
                   /\ w[i].lo = WrittenStart
                   /\ w[i].hi <= WrittenStart + P4EST_NUM_FIELD_HEADER_BYTES
              /\ w[i].what = "payload" =>
                   /\ w[i].lo = WrittenStart + P4EST_NUM_FIELD_HEADER_BYTES
                                  + SliceOffset(w[i].r)
                   /\ w[i].hi <= WrittenStart + P4EST_NUM_FIELD_HEADER_BYTES
                                   + L
              /\ w[i].what = "padding" =>
                   /\ w[i].lo = WrittenStart + P4EST_NUM_FIELD_HEADER_BYTES
                                  + L
                   /\ w[i].hi <= WrittenStart + SectionBytes(WrittenSection, N)
         /\ \A i \in parts : \A j \in parts :
              i < j => PartOrder(w[i].what) <= PartOrder(w[j].what)
         /\ (last.size > 0 /\ \A r \in RanksNow : ret[r].val = "fc")
            => /\ \E i \in parts :
                    /\ w[i].what = "header"
                    /\ w[i].hi = WrittenStart + P4EST_NUM_FIELD_HEADER_BYTES
               /\ \E i \in parts :
                    /\ w[i].what = "padding"
                    /\ w[i].hi = WrittenStart + SectionBytes(WrittenSection, N)
               /\ \A r \in (IF last.op = "write_field" THEN RanksNow
                            ELSE {0}) :
                    \E i \in parts : w[i].what = "payload" /\ w[i].r = r

\* Two ranks with quadrants write a field of 8 bytes per quadrant behind an
\* earlier section: header, the two slices and the padding.
C30_Witness ==
  /\ last.op = "write_field" /\ last.size = 8 /\ last.k >= 1
  /\ last.at > 0
  /\ p4est.mpisize = 2
  /\ p4est.global_first_quadrant[2] > 0
  /\ p4est.global_first_quadrant[3] > p4est.global_first_quadrant[2]
  /\ \A r \in RanksNow : ret[r].val = "fc"
  /\ \E i \in 1 .. Len(aux.writes) :
       /\ aux.writes[i].what = "payload" /\ aux.writes[i].r = 1
       /\ aux.writes[i].lo
            = WrittenStart + P4EST_NUM_FIELD_HEADER_BYTES
                + 8 * p4est.global_first_quadrant[2]
  /\ \E i \in 1 .. Len(aux.writes) : aux.writes[i].what = "padding"


(***************************************************************************)
(* The assertions of p4est_inflate on its arguments                        *)
(***************************************************************************)
MaxCount == 2
MaxAssertProcs == 2

\* The loop over the ranks, one rank short.
GfqAssertsShort(gfq, p, num_procs) ==
  \A i \in p .. (num_procs - 2) : gfq[i + 1] <= gfq[i + 2]

\* for (p = 0; p < num_procs; ++p) P4EST_ASSERT (gfq[p] <= gfq[p + 1]);
\* gfq[p + 1] stands for the C element gfq[p].
RECURSIVE GfqAsserts(_, _, _)
GfqAsserts(gfq, p, num_procs) ==
  IF p >= num_procs THEN TRUE
  ELSE gfq[p + 1] <= gfq[p + 2] /\ GfqAsserts(gfq, p + 1, num_procs)

\* for (jt = 0; jt < num_trees; ++jt)
\*   P4EST_ASSERT (pertree[jt] <= pertree[jt + 1]);
RECURSIVE PertreeAsserts(_, _, _)
PertreeAsserts(pertree, jt, num_trees) ==
  IF jt >= num_trees THEN TRUE
  ELSE pertree[jt] <= pertree[jt + 1]
         /\ PertreeAsserts(pertree, jt + 1, num_trees)

\* The assertions of a debug build on the arguments, in the order of the
\* code; elem_count is quadrants->elem_count, data_count is
\* data->elem_count and has_data stands for data != NULL.
InflateAsserts(gfq, num_procs, rank, pertree, num_trees, dim, elem_count, has_data, data_count) ==
  /\ gfq[1] = 0
  /\ GfqAsserts(gfq, 0, num_procs)
  /\ pertree[0] = 0
  /\ PertreeAsserts(pertree, 0, num_trees)
  /\ gfq[num_procs + 1] = pertree[num_trees]
  /\ elem_count = (dim + 1) * (gfq[rank + 2] - gfq[rank + 1])
  /\ ~has_data \/ data_count = gfq[rank + 2] - gfq[rank + 1]

\* The arguments followed: any two arrays of counts up to MaxCount for up
\* to MaxAssertProcs ranks and MaxTrees trees, sorted or not, and arrays of
\* coordinates and of user data of the lengths the counts allow and others.
InitAsserts ==
  /\ mpiio = FALSE
  /\ p4est = Forest(0, 1, <<0, 0>>)
  /\ file = <<>>
  /\ fc = [r \in Ranks(1) |-> NoCtx]
  /\ ret = [r \in Ranks(1) |-> NoRet]
  /\ phase = "start"
  /\ wlog = <<>>
  /\ last = NoLast
  /\ aux = NoAux
  /\ rd = NoRd
  /\ pi = NoPi
  /\ damage = NoDamage
  /\ \E P \in 1 .. MaxAssertProcs, T \in 1 .. MaxTrees :
       \E gfq \in [1 .. (P + 1) -> 0 .. MaxCount],
          pt \in [0 .. T -> 0 .. MaxCount],
          r \in 0 .. (P - 1), dim \in {2, 3}, ec \in {0, 3, 4, 6, 8},
          hd \in BOOLEAN, dc \in 0 .. MaxCount :
         df = [st |-> "call", gfq |-> gfq, num_procs |-> P, rank |-> r,
               pertree |-> pt, num_trees |-> T, dim |-> dim,
               elem_count |-> ec, has_data |-> hd, data_count |-> dc]

\* p4est_inflate runs up to the last assertion on its arguments.
InflateCheck ==
  /\ df.st = "call"
  /\ \E ok \in {InflateAsserts(df.gfq, df.num_procs, df.rank, df.pertree,
                               df.num_trees, df.dim, df.elem_count,
                               df.has_data, df.data_count)} :
       df' = [df EXCEPT !.st = "checked"] @@ [accepted |-> ok]
  /\ UNCHANGED <<mpiio, p4est, file, fc, ret, phase, wlog, last, aux, rd, pi,
                 damage>>

SpecAsserts == InitAsserts /\ [][InflateCheck]_vars

(***************************************************************************)
(* C31: what the assertions accept                                         *)
(***************************************************************************)
\* The arguments other than the order of gfq are as C31 lists them.
ArgumentsFit ==
  /\ df.gfq[1] = 0
  /\ \A a \in 0 .. df.num_trees : \A b \in a .. df.num_trees :
       df.pertree[a] <= df.pertree[b]
  /\ df.pertree[0] = 0
  /\ df.pertree[df.num_trees] = df.gfq[df.num_procs + 1]
  /\ df.elem_count
       = (df.dim + 1) * (df.gfq[df.rank + 2] - df.gfq[df.rank + 1])
  /\ df.has_data
       => df.data_count = df.gfq[df.rank + 2] - df.gfq[df.rank + 1]

\* C31 as stated: the assertions of p4est_inflate accept the arguments
\* only if gfq is strictly monotone with gfq[0] = 0, pertree is monotone
\* with pertree[0] = 0 and pertree[T] = gfq[P], the coordinate array has
\* (D + 1) * (gfq[r + 1] - gfq[r]) entries and the payload array, when
\* present, gfq[r + 1] - gfq[r] elements.
C31_ValidationStrict ==
  (df.st = "checked" /\ df.accepted)
  => /\ ArgumentsFit
     /\ \A p \in 1 .. df.num_procs : df.gfq[p] < df.gfq[p + 1]

\* C31 amended: the same with gfq monotone, not strictly: a rank may be
\* without quadrants.
C31_Validation ==
  (df.st = "checked" /\ df.accepted)
  => /\ ArgumentsFit
     /\ \A p \in 1 .. (df.num_procs + 1) : \A q \in p .. (df.num_procs + 1) :
          df.gfq[p] <= df.gfq[q]

\* Arguments with a rank without quadrants are accepted.
C31_Witness ==
  /\ df.st = "checked" /\ df.accepted
  /\ df.num_procs = 2 /\ df.gfq = <<0, 0, 2>> /\ df.rank = 1
  /\ df.num_trees = 2 /\ df.dim = 3 /\ df.elem_count = 8
  /\ df.has_data /\ df.data_count = 2


(***************************************************************************)
(* C32: the assertions inside the loop over the trees                      *)
(***************************************************************************)
\* p4est_inflate was called.
InflateCalled == df.st \in {"inflated", "again", "aborted", "crashed"}

\* C32: for arguments that pass the assertions on them, in every tree from
\* the first to the last local one the quadrants left in the tree and the
\* local quadrants left are both > 0, so that a quadrant is set up before
\* the last descendant is taken, also with a tree without quadrants
\* between the first and the last local tree.
C32_LoopAssertions ==
  InflateCalled
  => /\ InflateAsserts(df.p4est.global_first_quadrant, df.num_procs, df.rank,
                       df.pertree, df.num_trees, df.dim, Len(df.qarr),
                       df.p4est.data_size > 0,
                       df.p4est.local_num_quadrants)
     /\ df.inflated.st # "undefined"

\* The arguments of a forest of three trees holding 2, 0 and 2 quadrants
\* pass the assertions on them, and in tree 1 no quadrant is left to
\* place.
C32_Witness ==
  /\ InflateCalled /\ df.num_procs = 1 /\ df.num_trees = 3 /\ df.dim = 3
  /\ df.pertree[1] = 2 /\ df.pertree[2] = 2 /\ df.pertree[3] = 4
  /\ InflateAsserts(df.p4est.global_first_quadrant, df.num_procs, df.rank,
                    df.pertree, df.num_trees, df.dim, Len(df.qarr),
                    df.p4est.data_size > 0, df.p4est.local_num_quadrants)
  /\ df.inflated.st = "undefined"
  /\ df.inflated.first_local_tree = 0 /\ df.inflated.last_local_tree = 2

\* The part of C32 the code keeps: the arguments made from a forest pass
\* the assertions on them, and the assertions in the loop fail exactly
\* with a tree without quadrants inside the local range.
LoopAssertionsWithoutEmptyTree ==
  InflateCalled
  => /\ InflateAsserts(df.p4est.global_first_quadrant, df.num_procs, df.rank,
                       df.pertree, df.num_trees, df.dim, Len(df.qarr),
                       df.p4est.data_size > 0,
                       df.p4est.local_num_quadrants)
     /\ df.inflated.st = "undefined" <=> EmptyTreeInside


(***************************************************************************)
(* C33: what inflate keeps per tree                                        *)
(***************************************************************************)
RECURSIVE SumLevels(_, _)
SumLevels(quadrants_per_level, i) ==
  IF i < 0 THEN 0
  ELSE quadrants_per_level[i] + SumLevels(quadrants_per_level, i - 1)

RECURSIVE MaxLevelOf(_, _)
MaxLevelOf(quadrants, k) ==
  IF k = 0 THEN 0 ELSE Max(quadrants[k].level, MaxLevelOf(quadrants, k - 1))

RECURSIVE LocalBefore(_, _)
LocalBefore(trees, jt) ==
  IF jt = 0 THEN 0
  ELSE LocalBefore(trees, jt - 1) + Len(trees[jt - 1].quadrants)

\* C33: in the forest inflate returns, the counters per level of every
\* tree sum over the levels 0 .. QMAXLEVEL to the quadrants of the tree
\* and are -1 for deeper levels, maxlevel is the largest level among the
\* tree's quadrants (0 for an empty tree), quadrants_offset is the number
\* of local quadrants in the trees before, trees outside the local range
\* are empty, the trees hold N_local quadrants made of the coordinate
\* tuples in order, each once, and revision is 0.
C33_TreeBookkeeping ==
  df.st \in {"inflated", "again"}
  => LET f == df.inflated
         D == df.dim
     IN  /\ \A jt \in DOMAIN f.trees :
              LET tree == f.trees[jt]
              IN  /\ SumLevels(tree.quadrants_per_level, P4EST_QMAXLEVEL(D))
                       = Len(tree.quadrants)
                  /\ \A i \in (P4EST_QMAXLEVEL(D) + 1) .. P4EST_MAXLEVEL(D) :
                       tree.quadrants_per_level[i] = 0 - 1
                  /\ \A i \in 0 .. P4EST_QMAXLEVEL(D) :
                       tree.quadrants_per_level[i]
                         = Cardinality({k \in 1 .. Len(tree.quadrants) :
                                          tree.quadrants[k].level = i})
                  /\ tree.maxlevel
                       = MaxLevelOf(tree.quadrants, Len(tree.quadrants))
                  /\ tree.quadrants_offset = LocalBefore(f.trees, jt)
                  /\ (jt < f.first_local_tree \/ jt > f.last_local_tree)
                       => tree.quadrants = <<>>
                  /\ \A k \in 1 .. Len(tree.quadrants) :
                       QuadTuple(tree.quadrants[k], D)
                         = SubSeq(df.qarr,
                                  (D + 1) * (tree.quadrants_offset + k - 1)
                                    + 1,
                                  (D + 1) * (tree.quadrants_offset + k))
         /\ LocalBefore(f.trees, df.num_trees) = f.local_num_quadrants
         /\ f.consumed = Len(df.qarr)
         /\ f.revision = 0

\* Rank 1 of 2 inflates three quadrants: one of tree 0 and two of tree 1,
\* whose levels differ.
C33_Witness ==
  /\ df.st = "inflated" /\ df.num_procs = 2 /\ df.rank = 1 /\ df.dim = 3
  /\ df.num_trees = 3 /\ df.pertree[1] = 2 /\ df.pertree[2] = 4
  /\ df.inflated.global_first_quadrant = <<0, 1, 4>>
  /\ df.inflated.trees[1].quadrants_offset = 1
  /\ Len(df.inflated.trees[1].quadrants) = 2
  /\ df.inflated.trees[1].maxlevel = 2
  /\ df.inflated.trees[1].quadrants_per_level[2] = 1
  /\ df.inflated.trees[2].quadrants = <<>>
  /\ df.inflated.trees[2].quadrants_offset = 3


(***************************************************************************)
(* C34: a freed context is not used                                        *)
(***************************************************************************)
\* The last call looked at a field of a context that had been freed.
UseAfterFree == last.op = "read_field" /\ aux.freed # {}

\* C34: after a context has been freed, by close or by a call that failed
\* and released it, no code of the file functions reads or writes a field
\* of it; p4est_file_read_field does not look at the context after
\* p4est_file_read_field_ext has failed and freed it.
C34_NoUseAfterFree == ~UseAfterFree

\* A read of a field with a size other than the stored one: the inner call
\* frees the context and returns NULL, and the caller reads
\* fc->global_first_quadrant.
C34_Witness ==
  /\ UseAfterFree /\ p4est.mpisize = 1 /\ last.fault = NoFault
  /\ last.has_data /\ OnSection /\ CurrentSection.type = CharF
  /\ CurrentSection.size # last.size /\ last.size > 0
  /\ fc[0].st = "freed" /\ aux.freed = {0} /\ aux.stale = "same"
  /\ ret[0].val = "NULL" /\ ret[0].errcode = P4EST_ERR_IO

\* The part of C34 the code keeps: the read happens on the ranks on which
\* the call failed and on no other, and a call that leaves the context
\* alive reads no freed memory.
StaleReadOnlyOnFailure ==
  last.op = "read_field"
  => /\ aux.freed = {r \in RanksNow : fc[r].st = "freed"}
     /\ aux.stale = "none" <=> aux.freed = {}
     /\ \A r \in RanksNow :
          ret[r].val = "abort" => (r \in aux.freed /\ aux.stale = "fault")

(***************************************************************************)
(* C35: the padding buffer of write_header and write_field                 *)
(***************************************************************************)
\* The bytes snprintf stores into pad for the padding computed in df: the
\* characters of the padding and the terminating NUL.
StoredIntoPad == Len(df.pad) + 1

\* C35: for every payload length L the bytes get_padding_string stores
\* into the caller's pad buffer (padding characters and terminating NUL)
\* do not exceed the P4EST_MAX_NUM_PAD_BYTES = 17 bytes of the buffer that
\* write_header and write_field declare, the lengths with L mod 16 = 15
\* included.
C35_PadBufferBound ==
  df.st = "padded" => StoredIntoPad <= P4EST_MAX_NUM_PAD_BYTES

\* A padding has been computed for a length with L mod 16 = 15, for which
\* 17 padding bytes are produced.
C35_Witness ==
  /\ df.st = "padded"
  /\ df.num_bytes % P4EST_BYTE_DIV = 15
  /\ df.num_pad_bytes = 17

\* The part of C35 the code keeps: the buffer is exceeded, by the one byte
\* of the NUL, for the lengths with L mod 16 = 15 and for no other.
PadBufferExceededOnlyAt15 ==
  df.st = "padded"
  => /\ StoredIntoPad = PadStored(df.num_bytes, P4EST_BYTE_DIV)
     /\ StoredIntoPad <= P4EST_MAX_NUM_PAD_BYTES + 1
     /\ StoredIntoPad > P4EST_MAX_NUM_PAD_BYTES
          <=> df.num_bytes % P4EST_BYTE_DIV = 15

(***************************************************************************)
(* C36: ranks without quadrants                                            *)
(***************************************************************************)
\* The ranks with N_local = 0: gfq[r] = gfq[r + 1].
EmptyRanks == {r \in RanksNow : LocalNumQuadrants(p4est, r) = 0}

\* 64 + N_global * s + pad_len (N_global * s)
FieldAdvance(s) ==
  P4EST_NUM_FIELD_HEADER_BYTES + p4est.global_num_quadrants * s
    + NumPadBytes(p4est.global_num_quadrants * s, P4EST_BYTE_DIV)

\* A write_field of element size s > 0 in which no I/O call failed, on a
\* partition with an empty rank.
WriteWithEmptyRank ==
  /\ last.op = "write_field" /\ last.size > 0 /\ last.fault = NoFault
  /\ EmptyRanks # {}

\* A read_field of the element size of the field section under the cursor
\* in which no I/O call failed, on a partition with an empty rank.
ReadWithEmptyRank ==
  /\ last.op = "read_field" /\ last.has_data /\ last.size > 0
  /\ last.fault = NoFault
  /\ OnSection
  /\ CurrentSection.type = CharF /\ CurrentSection.size = last.size
  /\ EmptyRanks # {}

\* C36: when some ranks have N_local = 0, write_field and read_field with
\* element size s > 0 succeed on every rank, the empty ranks transfer no
\* payload byte, the bytes of the other ranks are the ones of their
\* quadrants, and every rank advances accessed_bytes by the same
\* 64 + N_global * s + pad_len (N_global * s).
C36_EmptyRanks ==
  /\ WriteWithEmptyRank
     => /\ \A r \in RanksNow :
             /\ ret[r] = Ret("fc", sc_MPI_SUCCESS)
             /\ fc[r].accessed_bytes = last.at + FieldAdvance(last.size)
             /\ aux.ranges[r].hi - aux.ranges[r].lo
                  = LocalNumQuadrants(p4est, r) * last.size
             /\ SubSeq(file, aux.ranges[r].lo + 1, aux.ranges[r].hi)
                  = LocalArray(p4est.global_first_quadrant, r, last.size)
        /\ \A r \in EmptyRanks : aux.ranges[r].hi = aux.ranges[r].lo
  /\ ReadWithEmptyRank
     => \A r \in RanksNow :
          /\ ret[r].val = "fc" /\ ret[r].errcode = sc_MPI_SUCCESS
          /\ fc[r].accessed_bytes = last.at + FieldAdvance(last.size)
          /\ ret[r].data = ExpectedData(r)
          /\ Len(ret[r].data) = LocalNumQuadrants(p4est, r) * last.size
          /\ r \in EmptyRanks => ret[r].data = <<>>

\* A field of element size 8 was read on two ranks of which the first has
\* no quadrant and the second has some, after it was written.
C36_Witness ==
  /\ ReadWithEmptyRank
  /\ last.size = 8
  /\ p4est.mpisize = 2
  /\ EmptyRanks = {0}
  /\ p4est.global_num_quadrants > 0
  /\ ret[1].val = "fc" /\ Len(ret[1].data) > 0

(***************************************************************************)
(* C37: num_calls                                                          *)
(***************************************************************************)
\* The number of sections of the file that end at or in front of the
\* cursor of context c.
SectionsPassed(c) ==
  Cardinality({k \in 1 .. Len(wlog) :
                 SumSections(wlog, k, p4est.global_num_quadrants)
                   <= c.accessed_bytes})

\* The ranks whose context is in use.
LiveRanks == {r \in RanksNow : fc[r].st = "live"}

\* num_calls is 0 after open and equals the number of sections the cursor
\* has passed.
NumCallsCountsSections ==
  \A r \in LiveRanks :
    /\ (last.op \in {"open_create", "open_read"}) => fc[r].num_calls = 0
    /\ phase \in {"write", "read"}
         => fc[r].num_calls = SectionsPassed(fc[r])

\* A step of a context that stays in use: a zero-size write leaves
\* num_calls alone, a call that advances the cursor adds exactly one, and
\* num_calls never decreases.
NumCallsStep ==
  \A r \in RanksNow :
    (fc[r].st = "live" /\ fc'[r].st = "live")
    => /\ fc'[r].num_calls >= fc[r].num_calls
       /\ (last'.op \in {"write_header", "write_field"} /\ last'.size = 0)
            => fc'[r].num_calls = fc[r].num_calls
       /\ fc'[r].accessed_bytes # fc[r].accessed_bytes
            => fc'[r].num_calls = fc[r].num_calls + 1
       /\ (/\ phase' \in {"write", "read"}
           /\ last'.op \in {"write_header", "write_field"} => last'.size > 0)
            => fc'[r].num_calls = fc[r].num_calls + 1

\* C37: num_calls is 0 after open, is incremented by exactly one by every
\* section operation that completes and advances the cursor (skips
\* included), is unchanged by zero-size writes, never decreases, and so
\* always equals the number of sections the cursor has passed.
C37_NumCalls == [][NumCallsStep]_vars /\ []NumCallsCountsSections

\* The part of C37 the code keeps: the steps of the counter.
NumCallsMonotone == [][NumCallsStep]_vars

\* num_calls counts the section operations completed on the context.
NumCallsCountsOperations ==
  \A r \in LiveRanks :
    /\ (last.op \in {"open_create", "open_read"}) => fc[r].num_calls = 0
    /\ phase = "write" => fc[r].num_calls = Len(wlog)
    /\ phase = "read" => fc[r].num_calls = rd.k
    /\ (/\ phase \in {"write", "read"}
        /\ fc[r].accessed_bytes
             = SumSections(wlog, fc[r].num_calls,
                           p4est.global_num_quadrants))
         => fc[r].num_calls = SectionsPassed(fc[r])

\* read_header without a buffer and with header_size 0 was called on a
\* header section of 15 bytes: one call is counted and the cursor stands
\* inside the section.
C37_Witness ==
  /\ SkippedSection /\ last.op = "read_header" /\ last.size = 0
  /\ CurrentSection.type = CharH /\ CurrentSection.size = 15
  /\ phase = "read"
  /\ \A r \in RanksNow :
       fc[r].num_calls = last.k + 1 /\ SectionsPassed(fc[r]) = last.k

(***************************************************************************)
(* C38: the section header, emitted and parsed                             *)
(***************************************************************************)
\* read_block_metadata on the 64 bytes bm of a section header, for a call
\* that passes a user string buffer: the checks of the type byte and of
\* the two newlines, the size and the user string.  Sizes are decimal
\* digit sequences.
ParseBlockMetadata(bm, block_type, data_size) ==
  LET b1 == SetAt(bm, P4EST_NUM_ARRAY_METADATA_BYTES + 1, NUL)
      read_data_size == AtolDigits(CStrAt(b1, 3))
      b2 == SetAt(b1, P4EST_NUM_FIELD_HEADER_BYTES - 1, NUL)
      user_string ==
        StrNCpy(CStrAt(b2, P4EST_NUM_ARRAY_METADATA_BYTES + 3),
                P4EST_NUM_USER_STRING_BYTES)
      fail == [ok |-> FALSE, errcode |-> P4EST_ERR_IO,
               read_data_size |-> <<>>, user_string |-> <<>>]
  IN  IF bm[1] # block_type THEN fail
      ELSE IF bm[P4EST_NUM_ARRAY_METADATA_BYTES + 2] # NL THEN fail
      ELSE IF read_data_size # data_size THEN fail
      ELSE IF bm[P4EST_NUM_FIELD_HEADER_BYTES] # NL THEN fail
      ELSE [ok |-> TRUE, errcode |-> sc_MPI_SUCCESS,
            read_data_size |-> read_data_size, user_string |-> user_string]

\* Sizes from 1 to the largest number of 13 digits, as decimal digits:
\* small ones, the powers of ten around the width, and 9999999999999.
HeaderSizeDigits ==
  {DecDigits(n) : n \in {1, 9, 10, 15, 16, 2147483647}}
    \cup {Fill(57, 12), <<49>> \o Fill(48, 12), Fill(57, 13),
          <<52, 50, 57, 52, 57, 54, 55, 50, 57, 54>>}

\* User strings of 0 to 47 characters, one of them with a newline.
HeaderUserStrings ==
  {[i \in 1 .. n |-> 97 + (i % 26)] :
     n \in 0 .. (P4EST_NUM_USER_STRING_BYTES - 1)}
    \cup {StrNewline, Fill(SP, 3)}

InitHeader ==
  /\ mpiio = FALSE
  /\ p4est = Forest(0, 1, <<0, 0>>)
  /\ file = <<>>
  /\ fc = [r \in Ranks(1) |-> NoCtx]
  /\ ret = [r \in Ranks(1) |-> NoRet]
  /\ phase = "start"
  /\ wlog = <<>>
  /\ last = NoLast
  /\ aux = NoAux
  /\ rd = NoRd
  /\ pi = NoPi
  /\ damage = NoDamage
  /\ \E bt \in {CharH, CharF}, d \in HeaderSizeDigits,
        us \in HeaderUserStrings :
       df = [st |-> "hdr", block_type |-> bt, data_size |-> d,
             user_string |-> us]

\* The snprintf of the section header in write_header and write_field.
EmitHeader ==
  /\ df.st = "hdr"
  /\ df' = [df EXCEPT !.st = "emitted"]
             @@ [header |-> SectionHeaderDigits(df.block_type, df.data_size,
                                                df.user_string)]
  /\ UNCHANGED <<mpiio, p4est, file, fc, ret, phase, wlog, last, aux, rd, pi,
                 damage>>

\* read_block_metadata on the emitted header, called for the type want.
ParseHeader ==
  /\ df.st = "emitted"
  /\ \E want \in {CharH, CharF} :
       df' = [df EXCEPT !.st = "parsed"]
               @@ [want |-> want,
                   parsed |-> ParseBlockMetadata(df.header, want,
                                                 df.data_size)]
  /\ UNCHANGED <<mpiio, p4est, file, fc, ret, phase, wlog, last, aux, rd, pi,
                 damage>>

NextHeader == EmitHeader \/ ParseHeader

SpecHeader == InitHeader /\ [][NextHeader]_vars

\* C38: for the block types 'H' and 'F', every size from 1 to
\* 9999999999999 and every user string of 0 to 47 characters the emitted
\* section header has exactly 64 bytes: the type byte at offset 0, a space
\* at offset 1, the size in 13 zero-padded digits at offsets 2..14, a
\* newline at offset 15, the space-padded user string at offsets 16..62
\* and a newline at offset 63; parsing it returns the same type, size and
\* padded user string.
C38_SectionHeader ==
  /\ df.st \in {"emitted", "parsed"}
     => LET hd == df.header
            d == df.data_size
            us == df.user_string
        IN  /\ Len(hd) = P4EST_NUM_FIELD_HEADER_BYTES
            /\ hd[1] = df.block_type
            /\ hd[2] = SP
            /\ \A i \in 3 .. 15 :
                 hd[i] = IF i - 2 <= 13 - Len(d) THEN 48
                         ELSE d[i - 2 - (13 - Len(d))]
            /\ hd[16] = NL
            /\ \A i \in 17 .. 63 :
                 hd[i] = IF i - 16 <= Len(us) THEN us[i - 16] ELSE SP
            /\ hd[64] = NL
  /\ df.st = "parsed"
     => /\ df.parsed.ok <=> df.want = df.block_type
        /\ df.parsed.ok
           => /\ df.parsed.read_data_size = df.data_size
              /\ Len(df.parsed.user_string) = P4EST_NUM_USER_STRING_BYTES
              /\ SubSeq(df.parsed.user_string, 1, 47)
                   = SubSeq(df.header, 17, 63)
              /\ df.parsed.user_string[48] = NUL

\* The header of a field of size 9999999999999 with a user string of 47
\* characters has been emitted and parsed.
C38_Witness ==
  /\ df.st = "parsed" /\ df.parsed.ok
  /\ df.block_type = CharF
  /\ df.data_size = Fill(57, 13)
  /\ Len(df.user_string) = 47
  /\ df.parsed.read_data_size = Fill(57, 13)

=============================================================================
